---- MODULE Spec2Model ----
(***************************************************************************)
(* A state-machine model of the time-windowed aggregation engine of        *)
(* guotie/go-metrics: the conditional values (cond.go), the period counter *)
(* (peroid_counter.go, second variant), the gauge map (gaugemap.go) and    *)
(* the data map (datamap.go).                                              *)
(*                                                                         *)
(* Time.  `now' is the wall clock in ticks; TicksPerSecond ticks make one  *)
(* second.  A time.Time is a tick count, a time.Duration is a number of    *)
(* ticks, and t.Unix() is the tick count divided (rounding down) by        *)
(* TicksPerSecond.  Every handler runs at one instant of the clock in the  *)
(* sequential specifications; SpecDMC splits DataMap.Snapshot into the     *)
(* steps it takes under the store's lock, SpecGMC runs the gauge map's     *)
(* methods step by step under its RWMutex, and SpecCatch runs an exporter  *)
(* loop under fairness with times kept relative to a moving origin.        *)
(*                                                                         *)
(* Values.  An int64 is an integer.  A float64 is an exact reduced         *)
(* fraction [n, d].  An interface{} value is a record tagged with its      *)
(* dynamic type.  A Go map is a function whose DOMAIN is its key set.      *)
(***************************************************************************)
EXTENDS Integers, Sequences, FiniteSets, TLC

VARIABLES
    now,      \* the wall clock, in ticks
    cond,     \* kind -> StandardCondInt / StandardCondFloat fields
    condc,    \* SpecCondC: the goroutines inside Snapshot, the writable results so far
    pc,       \* StandardPeriodCounter fields
    pcRoll,   \* observer: label -> what its last non-sentinel report saw
    pcLog,    \* observer: label -> the deltas reported for it and the increments not yet reported
    pcc,      \* SpecPCC: lock owner, the goroutines inside Inc, the sum handed to Inc
    gm,       \* StandardGaugeMap fields
    gmLog,    \* observer: key -> the last value written to it and the one before
    gmc,      \* SpecGMC: the store's RWMutex and the position of each goroutine calling it
    dm,       \* StandardDataMap fields
    dmObs,    \* observer: first boundaries, last rolls, last evaluations, last non-nil Snapshot
    dmc,      \* SpecDMC: lock owner and position of the Snapshot in progress
    registry, \* the Registry handed to Snapshot: name -> the instrument registered under it
    ret,      \* the last call: its name, arguments and result
    held      \* the snapshots a caller has kept: kind -> the snapshot object

vars == <<now, cond, condc, pc, pcRoll, pcLog, pcc, gm, gmLog, gmc, dm, dmObs, dmc, registry, ret, held>>
condVars == <<cond, condc>>
pcVars == <<pc, pcRoll, pcLog, pcc>>
gmVars == <<gm, gmLog, gmc>>
dmVars == <<dm, dmObs, dmc, registry>>

-----------------------------------------------------------------------------
(* Time *)

\* time.Second, in ticks: the unit of int64(du / time.Second) and of Unix().
TicksPerSecond == 2

Sec(n) == n * TicksPerSecond

\* time.Time.Unix(): whole seconds, rounded down.
Unix(t) == t \div TicksPerSecond

\* int64(du / time.Second): a duration's whole seconds.
DurSeconds(du) == du \div TicksPerSecond

-----------------------------------------------------------------------------
(* Values *)

Abs(x) == IF x < 0 THEN -x ELSE x

RECURSIVE Gcd(_, _)
Gcd(a, b) == IF b = 0 THEN a ELSE Gcd(b, a % b)

\* float64(n) / float64(d), d # 0, as a reduced fraction with d > 0.
FloatDiv(n, d) ==
    LET g == Gcd(Abs(n), Abs(d))
        s == IF d < 0 THEN -1 ELSE 1
    IN  [n |-> (s * n) \div g, d |-> (s * d) \div g]

FloatOf(n) == [n |-> n, d |-> 1]

\* Go maps
EmptyMap == [k \in {} |-> 0]
Has(m, k) == k \in DOMAIN m
Put(m, k, v) == [x \in (DOMAIN m) \cup {k} |-> IF x = k THEN v ELSE m[x]]
Del(m, k) == [x \in (DOMAIN m) \ {k} |-> m[x]]
\* m[k] of a map of int64: the zero value when k is absent
GetInt(m, k) == IF k \in DOMAIN m THEN m[k] ELSE 0

\* The clock advances by one of `steps', up to `max'.
Tick(steps, max) ==
    /\ \E d \in steps : now + d <= max /\ now' = now + d
    /\ ret' = [op |-> "Tick"]

-----------------------------------------------------------------------------
(* ConditionalValue: StandardCondInt and StandardCondFloat (cond.go) *)

MaxTimeCond == 7
CondKinds == {"int", "float"}
CondPeriods == {2, 3}
CondValues(g) == IF g = "int" THEN {1, 2} ELSE {FloatDiv(1, 2), FloatOf(2)}
CondZero(g) == IF g = "int" THEN 0 ELSE FloatOf(0)

\* NewCondInt / NewCondFloat at time tm
NewCond(g, period, tm) == [value |-> CondZero(g), period |-> period, lastSnap |-> tm]

\* The gate of Snapshot: now.Sub(g.lastSnap) >= g.period
CondSnapshotGateStrict(c, tm) == tm - c.lastSnap > c.period
CondSnapshotGate(c, tm) == tm - c.lastSnap >= c.period

\* Writable(): time.Now().Sub(g.lastSnap) >= g.period
CondWritableOf(c, tm) == tm - c.lastSnap >= c.period

\* Snapshot(): the snapshot returned and the fields after the call
CondSnapshotOfAlwaysStamp(c, tm) ==
    [snap |-> [value |-> c.value, writable |-> CondSnapshotGate(c, tm)],
     c |-> [c EXCEPT !.lastSnap = tm]]

CondSnapshotOf(c, tm) ==
    IF CondSnapshotGate(c, tm)
    THEN [snap |-> [value |-> c.value, writable |-> TRUE],
          c |-> [c EXCEPT !.lastSnap = tm]]
    ELSE [snap |-> [value |-> c.value, writable |-> FALSE], c |-> c]

CondSnapshot(g) ==
    LET r == CondSnapshotOf(cond[g], now) IN
    /\ cond' = [cond EXCEPT ![g] = r.c]
    /\ ret' = [op |-> "Snapshot", kind |-> g, value |-> r.snap.value,
               writable |-> r.snap.writable]
    /\ UNCHANGED <<held, now, condc, pcVars, gmVars, dmVars>>

CondWritable(g) ==
    /\ ret' = [op |-> "Writable", kind |-> g, writable |-> CondWritableOf(cond[g], now)]
    /\ UNCHANGED <<held, now, condVars, pcVars, gmVars, dmVars>>

CondUpdate(g, v) ==
    /\ cond' = [cond EXCEPT ![g].value = v]
    /\ ret' = [op |-> "Update", kind |-> g, value |-> v]
    /\ UNCHANGED <<held, now, condc, pcVars, gmVars, dmVars>>

CondValue(g) ==
    /\ ret' = [op |-> "Value", kind |-> g, value |-> cond[g].value]
    /\ UNCHANGED <<held, now, condVars, pcVars, gmVars, dmVars>>

CondTick ==
    /\ Tick({1}, MaxTimeCond)
    /\ UNCHANGED <<held, condVars, pcVars, gmVars, dmVars>>

\* Snapshot() called from several goroutines.  Neither variant takes a lock in
\* Snapshot: the clock reading, the comparison with lastSnap and the store to
\* lastSnap are separate steps.  The unsynchronised load of lastSnap yields the
\* stamp before or after a concurrent store (both carry a monotonic reading,
\* and Sub of two such times looks at that reading only).
CondThreads == {"g1", "g2"}
MaxCondCalls == 2
MaxTimeCondC == 5

CondCIdleThread(calls) == [pc |-> "idle", kind |-> "int", tm |-> 0, calls |-> calls]

CondCIdle ==
    [th |-> [t \in CondThreads |-> CondCIdleThread(0)],
     taken |-> [g \in CondKinds |-> <<>>]]

\* now := time.Now()
CondCBegin(t, g) ==
    /\ condc.th[t].pc = "idle" /\ condc.th[t].calls < MaxCondCalls
    /\ condc' = [condc EXCEPT !.th[t] = [pc |-> "gate", kind |-> g, tm |-> now,
                                         calls |-> condc.th[t].calls + 1]]
    /\ ret' = [op |-> "Snapshot.now", thread |-> t]
    /\ UNCHANGED <<held, now, cond, pcVars, gmVars, dmVars>>

\* if now.Sub(g.lastSnap) >= g.period, and the return of the else branch
CondCGate(t) ==
    LET th == condc.th[t] IN
    /\ th.pc = "gate"
    /\ IF CondSnapshotGate(cond[th.kind], th.tm)
       THEN /\ condc' = [condc EXCEPT !.th[t].pc = "stamp"]
            /\ ret' = [op |-> "Snapshot.gate", thread |-> t]
       ELSE /\ condc' = [condc EXCEPT !.th[t] = CondCIdleThread(th.calls)]
            /\ ret' = [op |-> "Snapshot", kind |-> th.kind, thread |-> t,
                       value |-> cond[th.kind].value, writable |-> FALSE]
    /\ UNCHANGED <<held, now, cond, pcVars, gmVars, dmVars>>

\* g.lastSnap = now; return &CondIntSnapshot{g.Value(), true}
CondCStamp(t) ==
    LET th == condc.th[t] IN
    /\ th.pc = "stamp"
    /\ cond' = [cond EXCEPT ![th.kind].lastSnap = th.tm]
    /\ condc' = [condc EXCEPT !.th[t] = CondCIdleThread(th.calls),
                              !.taken[th.kind] = Append(condc.taken[th.kind], th.tm)]
    /\ ret' = [op |-> "Snapshot", kind |-> th.kind, thread |-> t,
               value |-> cond[th.kind].value, writable |-> TRUE]
    /\ UNCHANGED <<held, now, pcVars, gmVars, dmVars>>


CondCTick ==
    /\ Tick({1}, MaxTimeCondC)
    /\ UNCHANGED <<held, condVars, pcVars, gmVars, dmVars>>

-----------------------------------------------------------------------------
(* RollingWindowCounter: StandardPeriodCounter (peroid_counter.go) *)

M1 == Sec(60)
M5 == Sec(300)
M15 == Sec(900)
M30 == Sec(1800)
H1 == Sec(3600)
D1 == Sec(86400)

\* The (delta, rate) that reports "no data"
Sentinel == [count |-> -1, rate |-> FloatOf(-1)]

NewPeriodCounter(tm) ==
    [count |-> 0, periods |-> EmptyMap, latestCounts |-> EmptyMap,
     nextTs |-> EmptyMap, lastSnap |-> tm, minPeriod |-> 0]

\* The alignment modulus setPeriod picks for a duration, in seconds
PCMod(du) ==
    CASE du = M5 -> 300
      [] du = M15 -> 15 * 60
      [] du = M30 -> 30 * 60
      [] du = H1 -> 3600
      [] du = D1 -> 86400
      [] OTHER -> 60

\* a rounding that keeps an aligned nts
AlignCeil(nts, mod) == IF nts % mod = 0 THEN nts ELSE nts - (nts % mod) + mod

\* nts - nts%mod + mod
AlignNext(nts, mod) == nts - (nts % mod) + mod

\* setPeriod(p, du, tm), the caller holding the lock; du # D1 in this model
PCsetPeriod(c, p, du, tm) ==
    IF du = 0
    THEN [c EXCEPT !.periods = Del(c.periods, p), !.nextTs = Del(c.nextTs, p)]
    ELSE IF Has(c.periods, p)
    THEN c
    ELSE [c EXCEPT !.periods = Put(c.periods, p, du),
                   !.nextTs = Put(c.nextTs, p, AlignNext(Unix(tm), PCMod(du)))]

\* SetPeriod(p, du): the gate interval is lowered first, then setPeriod
PCSetPeriodOf(c, p, du, tm) ==
    LET m == IF c.minPeriod = 0 THEN du
             ELSE IF c.minPeriod > du THEN du ELSE c.minPeriod
    IN  PCsetPeriod([c EXCEPT !.minPeriod = m], p, du, tm)

\* SetPeriods(ps): setPeriod for every label of ps at one reading of the clock;
\* each call touches its own label only
RECURSIVE PCSetPeriodsLoop(_, _, _, _)
PCSetPeriodsLoop(c, ps, labels, tm) ==
    IF labels = {} THEN c
    ELSE LET p == CHOOSE x \in labels : TRUE
         IN  PCSetPeriodsLoop(PCsetPeriod(c, p, ps[p], tm), ps, labels \ {p}, tm)

PCSetPeriodsOf(c, ps, tm) == PCSetPeriodsLoop(c, ps, DOMAIN ps, tm)

\* getPeriodCountRate(period, ts): the result and the fields after the call
getPeriodCountRateNoAdvance(c, period, ts) ==
    IF ~Has(c.periods, period) THEN [res |-> Sentinel, c |-> c]
    ELSE IF ts < GetInt(c.nextTs, period) THEN [res |-> Sentinel, c |-> c]
    ELSE LET du == c.periods[period]
             dcount == c.count - GetInt(c.latestCounts, period)
         IN  [res |-> [count |-> dcount, rate |-> FloatDiv(dcount, DurSeconds(du))],
              c |-> [c EXCEPT !.latestCounts = Put(c.latestCounts, period, c.count)]]

getPeriodCountRateKeepBaseline(c, period, ts) ==
    IF ~Has(c.periods, period) THEN [res |-> Sentinel, c |-> c]
    ELSE IF ts < GetInt(c.nextTs, period) THEN [res |-> Sentinel, c |-> c]
    ELSE LET du == c.periods[period]
             nextTs == GetInt(c.nextTs, period)
             dcount == c.count - GetInt(c.latestCounts, period)
         IN  [res |-> [count |-> dcount, rate |-> FloatDiv(dcount, DurSeconds(du))],
              c |-> [c EXCEPT !.nextTs = Put(c.nextTs, period, nextTs + DurSeconds(du))]]

\* a report of the running total instead of the difference to the baseline
getPeriodCountRateTotal(c, period, ts) ==
    IF ~Has(c.periods, period) THEN [res |-> Sentinel, c |-> c]
    ELSE IF ts < GetInt(c.nextTs, period) THEN [res |-> Sentinel, c |-> c]
    ELSE LET du == c.periods[period]
             nextTs == GetInt(c.nextTs, period)
         IN  [res |-> [count |-> c.count, rate |-> FloatDiv(c.count, DurSeconds(du))],
              c |-> [c EXCEPT !.nextTs = Put(c.nextTs, period, nextTs + DurSeconds(du)),
                              !.latestCounts = Put(c.latestCounts, period, c.count)]]

getPeriodCountRateByMod(c, period, ts) ==
    IF ~Has(c.periods, period) THEN [res |-> Sentinel, c |-> c]
    ELSE IF ts < GetInt(c.nextTs, period) THEN [res |-> Sentinel, c |-> c]
    ELSE LET du == c.periods[period]
             nextTs == GetInt(c.nextTs, period)
             dcount == c.count - GetInt(c.latestCounts, period)
         IN  [res |-> [count |-> dcount, rate |-> FloatDiv(dcount, DurSeconds(du))],
              c |-> [c EXCEPT !.nextTs = Put(c.nextTs, period, nextTs + PCMod(du)),
                              !.latestCounts = Put(c.latestCounts, period, c.count)]]

getPeriodCountRate(c, period, ts) ==
    IF ~Has(c.periods, period) THEN [res |-> Sentinel, c |-> c]
    ELSE IF ts < GetInt(c.nextTs, period) THEN [res |-> Sentinel, c |-> c]
    ELSE LET du == c.periods[period]
             nextTs == GetInt(c.nextTs, period)
             dcount == c.count - GetInt(c.latestCounts, period)
         IN  [res |-> [count |-> dcount, rate |-> FloatDiv(dcount, DurSeconds(du))],
              c |-> [c EXCEPT !.nextTs = Put(c.nextTs, period, nextTs + DurSeconds(du)),
                              !.latestCounts = Put(c.latestCounts, period, c.count)]]

\* Snapshot(): the PeriodCounterSnapshot returned and the fields after the call.
\* The labels are rolled one after the other; each roll touches its own label only.
RECURSIVE PCRollAll(_, _, _, _)
PCRollAll(c, labels, ts, acc) ==
    IF labels = {} THEN [c |-> c, periodCounts |-> acc]
    ELSE LET p == CHOOSE x \in labels : TRUE
             r == getPeriodCountRate(c, p, ts)
         IN  PCRollAll(r.c, labels \ {p}, ts, Put(acc, p, r.res))

PCSnapshotOfStampGated(c, tm) ==
    IF tm - c.lastSnap < c.minPeriod
    THEN [snap |-> [writable |-> FALSE, count |-> 0, periodCounts |-> EmptyMap],
          c |-> [c EXCEPT !.lastSnap = tm]]
    ELSE LET r == PCRollAll([c EXCEPT !.lastSnap = tm], DOMAIN c.periods, Unix(tm), EmptyMap)
         IN  [snap |-> [writable |-> TRUE, count |-> c.count, periodCounts |-> r.periodCounts],
              c |-> r.c]

PCSnapshotOf(c, tm) ==
    IF tm - c.lastSnap < c.minPeriod
    THEN [snap |-> [writable |-> FALSE, count |-> 0, periodCounts |-> EmptyMap], c |-> c]
    ELSE LET r == PCRollAll([c EXCEPT !.lastSnap = tm], DOMAIN c.periods, Unix(tm), EmptyMap)
         IN  [snap |-> [writable |-> TRUE, count |-> c.count, periodCounts |-> r.periodCounts],
              c |-> r.c]

\* Writable(): now.Sub(pc.lastSnap) >= pc.minPeriod
PCWritableOf(c, tm) == tm - c.lastSnap >= c.minPeriod

MaxTimePC == 500
MaxCount == 150
PCStart == Sec(100)
PCSteps == {Sec(20), Sec(60) + 1}
IncAmounts == {30, 120}
PCLabels == {"1m"}
PCDurations == {0, M1}
PCPeriodMaps == {[p \in PCLabels |-> du] : du \in PCDurations}
PCQueryLabels == PCLabels \cup {"none"}

\* sync.RWMutex of the counter and the goroutines inside Inc; alongside, what an
\* observer of the calls keeps: the sum of the Inc arguments since creation or
\* the last Clear, whether a Clear has happened, and for each label how many
\* deltas (one, or more) it has reported since that Clear
PCThreads == {"g1", "g2"}

PCCIdleThread == [pc |-> "idle", d |-> 0, tmp |-> 0]

PCCIdle ==
    [lock |-> "free", th |-> [t \in PCThreads |-> PCCIdleThread], sum |-> 0,
     cleared |-> FALSE, reported |-> EmptyMap, calls |-> 0, overlap |-> FALSE]

PCCReported(c, labels) ==
    IF ~c.cleared THEN c
    ELSE [c EXCEPT !.reported =
             [p \in DOMAIN c.reported \cup labels |->
                 IF p \notin labels THEN c.reported[p]
                 ELSE IF Has(c.reported, p) THEN 2 ELSE 1]]

\* What an observer keeps of each label it follows (none in most
\* specifications): the label's first
\* boundary and duration, the sum of the deltas reported for it, the running
\* total at its most recent roll, how often it rolled, and the windows (counted
\* from the first boundary, the window that ends there being -1) in which the
\* increments not yet reported were made
PCLogNew(c) ==
    [p \in DOMAIN c.periods |->
        [first |-> c.nextTs[p], secs |-> DurSeconds(c.periods[p]),
         sum |-> 0, total |-> 0, rolls |-> 0, wins |-> {}]]

PCLogWindow(e, tm) == (Unix(tm) - e.first) \div e.secs

PCLogInc(log, tm) ==
    [p \in DOMAIN log |-> [log[p] EXCEPT !.wins = @ \cup {PCLogWindow(log[p], tm)}]]

\* rolled: label -> the non-sentinel countRate just reported for it; cnt the
\* running total at the call
PCLogRoll(log, rolled, cnt) ==
    [p \in DOMAIN log |->
        IF Has(rolled, p)
        THEN [log[p] EXCEPT !.sum = @ + rolled[p].count, !.total = cnt,
                            !.rolls = @ + 1, !.wins = {}]
        ELSE log[p]]

\* Clear()
PCClearOfKeepBaselines(c) == [c EXCEPT !.count = 0]

PCClearOfKeepTotal(c) == [c EXCEPT !.latestCounts = EmptyMap]

PCClearOf(c) == [c EXCEPT !.count = 0, !.latestCounts = EmptyMap]

PCInc(i) ==
    /\ pc.count + i <= MaxCount
    /\ pc' = [pc EXCEPT !.count = pc.count + i]
    /\ pcc' = [pcc EXCEPT !.sum = pcc.sum + i]
    /\ pcLog' = PCLogInc(pcLog, now)
    /\ ret' = [op |-> "Inc", i |-> i]
    /\ UNCHANGED <<held, now, condVars, pcRoll, gmVars, dmVars>>

PCClear ==
    /\ pc' = PCClearOf(pc)
    /\ pcc' = [pcc EXCEPT !.sum = 0, !.cleared = TRUE, !.reported = EmptyMap]
    /\ ret' = [op |-> "Clear"]
    /\ UNCHANGED <<held, now, condVars, pcRoll, pcLog, gmVars, dmVars>>

PCCount ==
    /\ ret' = [op |-> "Count", count |-> pc.count]
    /\ UNCHANGED <<held, now, condVars, pcVars, gmVars, dmVars>>

\* LatestPeriodCountRate(period), at ts = time.Now().Unix()
PCLatestPeriodCountRate(period) ==
    LET r == getPeriodCountRate(pc, period, Unix(now)) IN
    /\ pc' = r.c
    /\ ret' = [op |-> "LatestPeriodCountRate", period |-> period, res |-> r.res]
    /\ pcRoll' = IF r.res # Sentinel
                 THEN Put(pcRoll, period, [at |-> Unix(now), nb |-> pc.nextTs[period],
                                           secs |-> DurSeconds(pc.periods[period])])
                 ELSE pcRoll
    /\ pcc' = PCCReported(pcc, IF r.res # Sentinel THEN {period} ELSE {})
    /\ pcLog' = PCLogRoll(pcLog, IF r.res # Sentinel THEN period :> r.res ELSE EmptyMap,
                          pc.count)
    /\ UNCHANGED <<held, now, condVars, gmVars, dmVars>>

PCSetPeriod(p, du) ==
    /\ pc' = PCSetPeriodOf(pc, p, du, now)
    /\ ret' = [op |-> "SetPeriod", period |-> p, du |-> du, panic |-> FALSE]
    /\ pcRoll' = IF du = 0 THEN Del(pcRoll, p) ELSE pcRoll
    /\ UNCHANGED <<held, now, condVars, pcLog, pcc, gmVars, dmVars>>

PCSetPeriods(ps) ==
    /\ pc' = PCSetPeriodsOf(pc, ps, now)
    /\ ret' = [op |-> "SetPeriods", ps |-> ps, panic |-> FALSE]
    /\ pcRoll' = [p \in DOMAIN pcRoll \cap DOMAIN pc'.periods |-> pcRoll[p]]
    /\ UNCHANGED <<held, now, condVars, pcLog, pcc, gmVars, dmVars>>

PCSnapshot ==
    LET r == PCSnapshotOf(pc, now) IN
    /\ pc' = r.c
    /\ ret' = [op |-> "Snapshot", snap |-> r.snap]
    /\ pcc' = PCCReported(pcc, {p \in DOMAIN r.snap.periodCounts :
                                   r.snap.periodCounts[p] # Sentinel})
    /\ pcLog' = PCLogRoll(pcLog, [p \in {q \in DOMAIN r.snap.periodCounts :
                                            r.snap.periodCounts[q] # Sentinel} |->
                                    r.snap.periodCounts[p]], pc.count)
    /\ UNCHANGED <<held, now, condVars, pcRoll, gmVars, dmVars>>

\* PeriodCounterSnapshot.LatestPeriodCountRate(period): the entry of
\* periodCounts, the zero countRate when the map (nil in a gated snapshot)
\* has none
PCSnapshotLatestOf(snap, period) ==
    IF Has(snap.periodCounts, period) THEN snap.periodCounts[period]
    ELSE [count |-> 0, rate |-> FloatOf(0)]

\* LatestPeriodCountRate(period) called on the snapshot the last call returned
PCSnapshotLatestPeriodCountRate(period) ==
    /\ ret.op \in {"Snapshot", "Snapshot.LatestPeriodCountRate"}
    /\ ret' = [op |-> "Snapshot.LatestPeriodCountRate", snap |-> ret.snap,
               period |-> period, res |-> PCSnapshotLatestOf(ret.snap, period)]
    /\ UNCHANGED <<held, now, condVars, pcVars, gmVars, dmVars>>

PCWritable ==
    /\ ret' = [op |-> "Writable", writable |-> PCWritableOf(pc, now)]
    /\ UNCHANGED <<held, now, condVars, pcVars, gmVars, dmVars>>

PCTick ==
    /\ Tick(PCSteps, MaxTimePC)
    /\ UNCHANGED <<held, condVars, pcVars, gmVars, dmVars>>

\* Concurrent callers.  Inc is Lock, count += i, Unlock, the addition being a
\* read and a write of the field; the int64 total is kept at a width of
\* CountBits bits, two's complement, so that sums overflow within reach.
CountBits == 3
MaxIncCalls == 4
MaxTimePCC == 330
PCCAmounts == {1, 3}
PCCSteps == {Sec(60) + 1}

Wrap(x) == ((x + 2 ^ (CountBits - 1)) % (2 ^ CountBits)) - 2 ^ (CountBits - 1)

PCLockIgnored(c) == TRUE
PCLockFree(c) == c.lock = "free"

\* a goroutine calls Inc(d)
PCCCall(t, d) ==
    /\ pcc.th[t].pc = "idle" /\ pcc.calls < MaxIncCalls
    /\ pcc' = [pcc EXCEPT !.th[t] = [pc |-> "lock", d |-> d, tmp |-> 0],
                          !.calls = pcc.calls + 1,
                          !.overlap = pcc.overlap
                                       \/ \E u \in PCThreads \ {t} : pcc.th[u].pc # "idle"]
    /\ ret' = [op |-> "Inc.call", i |-> d]
    /\ UNCHANGED <<held, now, condVars, pc, pcRoll, pcLog, gmVars, dmVars>>

\* pc.Lock()
PCCLock(t) ==
    /\ pcc.th[t].pc = "lock" /\ PCLockFree(pcc)
    /\ pcc' = [pcc EXCEPT !.lock = t, !.th[t].pc = "read"]
    /\ ret' = [op |-> "Inc.Lock"]
    /\ UNCHANGED <<held, now, condVars, pc, pcRoll, pcLog, gmVars, dmVars>>

\* pc.count += i, the read
PCCRead(t) ==
    /\ pcc.th[t].pc = "read"
    /\ pcc' = [pcc EXCEPT !.th[t].tmp = pc.count, !.th[t].pc = "write"]
    /\ ret' = [op |-> "Inc.read"]
    /\ UNCHANGED <<held, now, condVars, pc, pcRoll, pcLog, gmVars, dmVars>>

\* pc.count += i, the write
PCCWrite(t) ==
    /\ pcc.th[t].pc = "write"
    /\ pc' = [pc EXCEPT !.count = Wrap(pcc.th[t].tmp + pcc.th[t].d)]
    /\ pcc' = [pcc EXCEPT !.sum = pcc.sum + pcc.th[t].d, !.th[t].pc = "unlock"]
    /\ ret' = [op |-> "Inc.write"]
    /\ UNCHANGED <<held, now, condVars, pcRoll, pcLog, gmVars, dmVars>>

\* the deferred pc.Unlock(); Inc returns
PCCUnlock(t) ==
    /\ pcc.th[t].pc = "unlock"
    /\ pcc' = [pcc EXCEPT !.lock = "free", !.th[t] = PCCIdleThread]
    /\ ret' = [op |-> "Inc", i |-> pcc.th[t].d]
    /\ UNCHANGED <<held, now, condVars, pc, pcRoll, pcLog, gmVars, dmVars>>

\* The other calls hold the lock from their first statement to their last
PCCCount == PCLockFree(pcc) /\ PCCount
PCCClear == PCLockFree(pcc) /\ PCClear
PCCLatestPeriodCountRate(p) == PCLockFree(pcc) /\ PCLatestPeriodCountRate(p)
PCCSnapshot == PCLockFree(pcc) /\ PCSnapshot

PCCTick ==
    /\ Tick(PCCSteps, MaxTimePCC)
    /\ UNCHANGED <<held, condVars, pcVars, gmVars, dmVars>>

\* The running total under increments of either sign
MaxTotal == 3
MaxTimeTotal == 450
TotalAmounts == {-1, 2}
TotalSteps == {Sec(60) + 1}

\* Inc(i), i of either sign
TotalInc(i) ==
    /\ pc.count + i <= MaxTotal /\ pc.count + i >= -MaxTotal
    /\ pc' = [pc EXCEPT !.count = pc.count + i]
    /\ pcc' = [pcc EXCEPT !.sum = pcc.sum + i]
    /\ pcLog' = PCLogInc(pcLog, now)
    /\ ret' = [op |-> "Inc", i |-> i]
    /\ UNCHANGED <<held, now, condVars, pcRoll, gmVars, dmVars>>

TotalTick ==
    /\ Tick(TotalSteps, MaxTimeTotal)
    /\ UNCHANGED <<held, condVars, pcVars, gmVars, dmVars>>

-----------------------------------------------------------------------------
(* RollingWindowCounter, the earlier StandardPeriodCounter of peroid_counter.go
   (lines 1-307): no snapshot gate, and the day handled by the modulus *)

\* NewPeriodCounter()
PC1New == [count |-> 0, periods |-> EmptyMap, latestCounts |-> EmptyMap,
           nextTs |-> EmptyMap]

\* the switch of setPeriod: m5, m15, m30, m60/h1, d1, default 60
PC1Mod(du) ==
    CASE du = M5 -> 300
      [] du = M15 -> 15 * 60
      [] du = M30 -> 30 * 60
      [] du = H1 -> 3600
      [] du = D1 -> 86400
      [] OTHER -> 60

\* setPeriod(p, du, nts), the caller holding the lock
PC1setPeriod(c, p, du, nts) ==
    IF du = 0
    THEN [c EXCEPT !.periods = Del(c.periods, p), !.nextTs = Del(c.nextTs, p)]
    ELSE IF Has(c.periods, p)
    THEN c
    ELSE [c EXCEPT !.periods = Put(c.periods, p, du),
                   !.nextTs = Put(c.nextTs, p, AlignNext(nts, PC1Mod(du)))]

RECURSIVE PC1SetPeriodsLoop(_, _, _, _)
PC1SetPeriodsLoop(c, ps, labels, nts) ==
    IF labels = {} THEN c
    ELSE LET p == CHOOSE x \in labels : TRUE
         IN  PC1SetPeriodsLoop(PC1setPeriod(c, p, ps[p], nts), ps, labels \ {p}, nts)

MaxSecondsDay == 130000
DayStarts == {Sec(3600), Sec(50000)}
DaySteps == {Sec(40000)}
DayLabels == {"d"}
DayDurations == {0, H1, D1}
\* the local zone the process runs in, in seconds east of UTC
ZoneOffsets == {0, 8 * 3600, -(5 * 3600)}

\* SetPeriod(p, du) in a process whose local zone is off
PC1SetPeriod(p, du, off) ==
    /\ pc' = PC1setPeriod(pc, p, du, Unix(now))
    /\ ret' = [op |-> "v1.SetPeriod", period |-> p, du |-> du, off |-> off]
    /\ UNCHANGED <<held, now, condVars, pcRoll, pcLog, pcc, gmVars, dmVars>>

\* SetPeriods(ps) in a process whose local zone is off
PC1SetPeriods(ps, off) ==
    /\ pc' = PC1SetPeriodsLoop(pc, ps, DOMAIN ps, Unix(now))
    /\ ret' = [op |-> "v1.SetPeriods", ps |-> ps, off |-> off]
    /\ UNCHANGED <<held, now, condVars, pcRoll, pcLog, pcc, gmVars, dmVars>>

DayTick ==
    /\ Tick(DaySteps, Sec(MaxSecondsDay))
    /\ UNCHANGED <<held, condVars, pcVars, gmVars, dmVars>>

-----------------------------------------------------------------------------
(* The deltas a counter reports, followed call by call *)

MaxTimeDelta == 640
DeltaPeriods == ("1m" :> M1) @@ ("90s" :> Sec(90))
DeltaSteps == {Sec(30), Sec(90)}

DeltaTick ==
    /\ Tick(DeltaSteps, MaxTimeDelta)
    /\ UNCHANGED <<held, condVars, pcVars, gmVars, dmVars>>

-----------------------------------------------------------------------------
(* KeyedGauge: StandardGaugeMap (gaugemap.go) *)

\* interface{} values, tagged with their dynamic type
IntV(n) == [t |-> "int64", v |-> n]
FloatV(x) == [t |-> "float64", v |-> x]
IntFn(f) == [t |-> "IntValueFunc", fn |-> f]
FloatFn(f) == [t |-> "FloatValueFunc", fn |-> f]
\* m[k].(int64) succeeds
IsInt(m, k) == Has(m, k) /\ m[k].t = "int64"
IsFloat(m, k) == Has(m, k) /\ m[k].t = "float64"

NewGaugeMap == [value |-> EmptyMap, valuePrev |-> EmptyMap]

\* The function entries the reference test registers.  Each reads the fields of
\* the store it is handed; a failed type assertion panics.
FnSum(g) ==
    IF IsInt(g.value, "i") /\ IsInt(g.value, "j")
    THEN [panic |-> FALSE, val |-> IntV(g.value["i"].v + g.value["j"].v)]
    ELSE [panic |-> TRUE]

FnRatio(g) ==
    IF ~IsInt(g.value, "j") THEN [panic |-> TRUE]
    ELSE IF g.value["j"].v = 0 THEN [panic |-> FALSE, val |-> FloatV(FloatOf(0))]
    ELSE IF ~IsInt(g.value, "i") THEN [panic |-> TRUE]
    ELSE [panic |-> FALSE, val |-> FloatV(FloatDiv(g.value["i"].v, g.value["j"].v))]

FnDelta(g) ==
    IF ~Has(g.valuePrev, "i")
    THEN IF IsInt(g.value, "i") THEN [panic |-> FALSE, val |-> g.value["i"]]
         ELSE [panic |-> TRUE]
    ELSE IF IsInt(g.value, "i") /\ IsInt(g.valuePrev, "i")
         THEN [panic |-> FALSE, val |-> IntV(g.value["i"].v - g.valuePrev["i"].v)]
         ELSE [panic |-> TRUE]

GMCall(fn, g) ==
    CASE fn = "sum" -> FnSum(g)
      [] fn = "ratio" -> FnRatio(g)
      [] fn = "delta" -> FnDelta(g)

\* One iteration of Snapshot's loop: the entry `key' of g.value goes into snap
GMSnapEntrySkipFloat(g, key, snap) ==
    LET e == g.value[key] IN
    IF e.t = "int64" THEN [snap EXCEPT !.i = Put(snap.i, key, e.v)]
    ELSE IF e.t = "float64" THEN snap
    ELSE LET r == GMCall(e.fn, g) IN
         IF r.panic THEN [snap EXCEPT !.panic = TRUE]
         ELSE IF e.t = "FloatValueFunc"
         THEN [snap EXCEPT !.f = Put(snap.f, key, r.val.v),
                           !.calls = Put(snap.calls, key, GetInt(snap.calls, key) + 1)]
         ELSE [snap EXCEPT !.i = Put(snap.i, key, r.val.v),
                           !.calls = Put(snap.calls, key, GetInt(snap.calls, key) + 1)]

GMSnapEntryStale(g, key, snap) ==
    LET e == g.value[key]
        old == [g EXCEPT !.value = [k \in DOMAIN g.value |->
                   IF Has(g.valuePrev, k) THEN g.valuePrev[k] ELSE g.value[k]]]
    IN
    IF e.t = "int64" THEN [snap EXCEPT !.i = Put(snap.i, key, e.v)]
    ELSE IF e.t = "float64" THEN [snap EXCEPT !.f = Put(snap.f, key, e.v)]
    ELSE LET r == GMCall(e.fn, old) IN
         IF r.panic THEN [snap EXCEPT !.panic = TRUE]
         ELSE IF e.t = "FloatValueFunc"
         THEN [snap EXCEPT !.f = Put(snap.f, key, r.val.v),
                           !.calls = Put(snap.calls, key, GetInt(snap.calls, key) + 1)]
         ELSE [snap EXCEPT !.i = Put(snap.i, key, r.val.v),
                           !.calls = Put(snap.calls, key, GetInt(snap.calls, key) + 1)]

GMSnapEntry(g, key, snap) ==
    LET e == g.value[key] IN
    IF e.t = "int64" THEN [snap EXCEPT !.i = Put(snap.i, key, e.v)]
    ELSE IF e.t = "float64" THEN [snap EXCEPT !.f = Put(snap.f, key, e.v)]
    ELSE LET r == GMCall(e.fn, g) IN
         IF r.panic THEN [snap EXCEPT !.panic = TRUE]
         ELSE IF e.t = "FloatValueFunc"
         THEN [snap EXCEPT !.f = Put(snap.f, key, r.val.v),
                           !.calls = Put(snap.calls, key, GetInt(snap.calls, key) + 1)]
         ELSE [snap EXCEPT !.i = Put(snap.i, key, r.val.v),
                           !.calls = Put(snap.calls, key, GetInt(snap.calls, key) + 1)]

\* Snapshot(): the loop over g.value.  `calls' counts the invocations of each
\* function entry; a panic inside a function ends the call.
RECURSIVE GMSnapLoop(_, _, _)
GMSnapLoop(g, keys, snap) ==
    IF keys = {} \/ snap.panic THEN snap
    ELSE LET key == CHOOSE k \in keys : TRUE
         IN  GMSnapLoop(g, keys \ {key}, GMSnapEntry(g, key, snap))

GMSnapshotOf(g) ==
    GMSnapLoop(g, DOMAIN g.value,
               [panic |-> FALSE, i |-> EmptyMap, f |-> EmptyMap, calls |-> EmptyMap])

\* UpdateInt64(key, v): pv.(int64) panics when the entry is no int64
GMUpdateInt64Of(g, key, v) ==
    IF Has(g.value, key)
    THEN IF g.value[key].t = "int64"
         THEN [panic |-> FALSE,
               g |-> [g EXCEPT !.valuePrev = Put(g.valuePrev, key, g.value[key]),
                               !.value = Put(g.value, key, IntV(v))]]
         ELSE [panic |-> TRUE, g |-> g]
    ELSE [panic |-> FALSE,
          g |-> [g EXCEPT !.valuePrev = Put(g.valuePrev, key, IntV(0)),
                          !.value = Put(g.value, key, IntV(v))]]

\* UpdateFloat64(key, v): pv.(float64) panics when the entry is no float64
GMUpdateFloat64Of(g, key, v) ==
    IF Has(g.value, key)
    THEN IF g.value[key].t = "float64"
         THEN [panic |-> FALSE,
               g |-> [g EXCEPT !.valuePrev = Put(g.valuePrev, key, g.value[key]),
                               !.value = Put(g.value, key, FloatV(v))]]
         ELSE [panic |-> TRUE, g |-> g]
    ELSE [panic |-> FALSE,
          g |-> [g EXCEPT !.valuePrev = Put(g.valuePrev, key, FloatV(FloatOf(0))),
                          !.value = Put(g.value, key, FloatV(v))]]

\* SetFuncKey(key, fn) with fn an int64- or float64-returning function
GMSetFuncKeyOf(g, key, fn) == [g EXCEPT !.value = Put(g.value, key, fn)]

\* a type switch that lets every value through as it is
FuncKindLax(fn) == fn.t

\* the type switch of SetFuncKey: the named types as they are, the plain
\* function types converted to them, anything else refused
GMFuncKind(fn) ==
    CASE fn.t \in {"IntValueFunc", "func(GaugeMap) int64"} -> "IntValueFunc"
      [] fn.t \in {"FloatValueFunc", "func(GaugeMap) float64"} -> "FloatValueFunc"
      [] OTHER -> "invalid"

\* SetFuncKey(key, fn) for any fn: the default branch panics
GMSetFuncKeyChecked(g, key, fn) ==
    LET kind == GMFuncKind(fn) IN
    IF kind = "invalid" THEN [panic |-> TRUE, g |-> g]
    ELSE [panic |-> FALSE, g |-> GMSetFuncKeyOf(g, key, [fn EXCEPT !.t = kind])]

IntUpdates ==
    {<<"i", 100>>, <<"i", 300>>, <<"i", 50>>,
     <<"j", 400>>, <<"j", 500>>, <<"j", 150>>, <<"f", 100>>}
FloatUpdates == {<<"f", FloatDiv(1, 2)>>, <<"f", FloatDiv(3, 2)>>}
FuncEntries ==
    {<<"i+j", IntFn("sum")>>, <<"i/j", FloatFn("ratio")>>, <<"delta", IntFn("delta")>>}

\* observer: what a write of w to key makes of the key's log
LogWrite(log, key, w, zero) ==
    Put(log, key, [last |-> w, before |-> IF Has(log, key) THEN log[key].last ELSE zero])

GMUpdateInt64(key, v) ==
    LET r == GMUpdateInt64Of(gm, key, v) IN
    /\ gm' = r.g
    /\ gmLog' = IF r.panic THEN gmLog ELSE LogWrite(gmLog, key, IntV(v), IntV(0))
    /\ ret' = [op |-> "UpdateInt64", key |-> key, val |-> IntV(v), panic |-> r.panic]
    /\ UNCHANGED <<held, now, condVars, pcVars, gmc, dmVars>>

GMUpdateFloat64(key, v) ==
    LET r == GMUpdateFloat64Of(gm, key, v) IN
    /\ gm' = r.g
    /\ gmLog' = IF r.panic THEN gmLog ELSE LogWrite(gmLog, key, FloatV(v), FloatV(FloatOf(0)))
    /\ ret' = [op |-> "UpdateFloat64", key |-> key, val |-> FloatV(v), panic |-> r.panic]
    /\ UNCHANGED <<held, now, condVars, pcVars, gmc, dmVars>>

GMSetFuncKey(key, fn) ==
    LET r == GMSetFuncKeyChecked(gm, key, fn) IN
    /\ gm' = r.g
    /\ ret' = [op |-> "SetFuncKey", key |-> key, fn |-> fn, panic |-> r.panic]
    /\ UNCHANGED <<held, now, condVars, pcVars, gmLog, gmc, dmVars>>

GMSnapshot ==
    /\ ret' = [op |-> "Snapshot", snap |-> GMSnapshotOf(gm)]
    /\ UNCHANGED <<held, now, condVars, pcVars, gmVars, dmVars>>

-----------------------------------------------------------------------------
(* KeyedGauge under its lock: the sync.RWMutex embedded in StandardGaugeMap *)

\* The goroutines calling the store
GMCGoroutines == {"exporter", "app"}
NoGoroutine == "none"

\* A function entry that reads through the interface it is handed:
\*   func(g GaugeMap) int64 { return 2 * g.ValueInt64("i") }
FnTwiceKey == "i"
FnTwiceOf(x) == 2 * x
\* the function entries that read through the methods of their argument
GMCMethodFns == {"twice"}

\* Where a goroutine is.  `outer' is the call that invoked the function entry
\* inside which a ValueInt64 is running.
GMCIdlePos == [at |-> "idle"]
NoOuter == [op |-> "none"]

\* sync.RWMutex: the writer holding it, the read locks each goroutine holds
GMCNew ==
    [w |-> NoGoroutine, r |-> [t \in GMCGoroutines |-> 0],
     at |-> [t \in GMCGoroutines |-> GMCIdlePos]]

\* RWMutex.Lock() returns: no writer holds the mutex and every reader has left
GMCCanLock(c) == c.w = NoGoroutine /\ \A t \in GMCGoroutines : c.r[t] = 0
\* a goroutine blocked inside Lock(): new readers wait behind it
GMCWriterPending(c) == \E t \in GMCGoroutines : c.at[t].at = "Lock"
\* RWMutex.RLock() returns: no writer holds the mutex and none is waiting for it
GMCCanRLock(c) == c.w = NoGoroutine /\ ~GMCWriterPending(c)

\* A panic unwinds the goroutine: every deferred Unlock and RUnlock runs
GMCUnwind(c, t) ==
    [c EXCEPT !.w = IF c.w = t THEN NoGoroutine ELSE c.w,
              !.r[t] = 0,
              !.at[t] = GMCIdlePos]

\* A call is made: the goroutine reaches the Lock() or RLock() of the method
GMCBegin(t, op, key, v) ==
    /\ gmc.at[t].at = "idle"
    /\ gmc' = [gmc EXCEPT !.at[t] =
                 [at |-> IF op = "ValueInt64" THEN "RLock" ELSE "Lock",
                  op |-> op, key |-> key, v |-> v, outer |-> NoOuter]]
    /\ UNCHANGED <<held, now, condVars, pcVars, gm, gmLog, dmVars, ret>>

\* g.Lock() returns; Snapshot starts its loop over g.value with an empty snap
GMCLock(t) ==
    /\ gmc.at[t].at = "Lock"
    /\ GMCCanLock(gmc)
    /\ gmc' = [gmc EXCEPT !.w = t,
                 !.at[t] = IF gmc.at[t].op = "Snapshot"
                           THEN [at |-> "loop", op |-> "Snapshot", keys |-> DOMAIN gm.value,
                                 snap |-> [i |-> EmptyMap, f |-> EmptyMap]]
                           ELSE [gmc.at[t] EXCEPT !.at = "body"]]
    /\ UNCHANGED <<held, now, condVars, pcVars, gm, gmLog, dmVars, ret>>

\* The body of UpdateInt64 or SetFuncKey under the lock, and the deferred Unlock
GMCWrite(t) ==
    /\ gmc.at[t].at = "body"
    /\ LET p == gmc.at[t]
           r == IF p.op = "UpdateInt64" THEN GMUpdateInt64Of(gm, p.key, p.v)
                ELSE GMSetFuncKeyChecked(gm, p.key, p.v)
       IN /\ gm' = r.g
          /\ ret' = [op |-> p.op, by |-> t, key |-> p.key, panic |-> r.panic]
    /\ gmc' = GMCUnwind(gmc, t)
    /\ UNCHANGED <<held, now, condVars, pcVars, gmLog, dmVars>>

\* One iteration of Snapshot's loop, or its return when the keys are exhausted.
\* A function entry that reads through g's methods reaches ValueInt64's RLock.
GMCSnapStep(t) ==
    /\ gmc.at[t].at = "loop"
    /\ LET p == gmc.at[t] IN
       IF p.keys = {}
       THEN /\ gmc' = GMCUnwind(gmc, t)
            /\ ret' = [op |-> "Snapshot", by |-> t, panic |-> FALSE, snap |-> p.snap]
       ELSE \E key \in p.keys :
            LET e == gm.value[key]
                rest == p.keys \ {key}
            IN
            IF e.t \in {"int64", "float64"}
            THEN /\ gmc' = [gmc EXCEPT !.at[t] =
                      [p EXCEPT !.keys = rest,
                                !.snap = IF e.t = "int64"
                                         THEN [p.snap EXCEPT !.i = Put(p.snap.i, key, e.v)]
                                         ELSE [p.snap EXCEPT !.f = Put(p.snap.f, key, e.v)]]]
                 /\ UNCHANGED ret
            ELSE IF e.fn \in GMCMethodFns
            THEN /\ gmc' = [gmc EXCEPT !.at[t] =
                      [at |-> "RLock", op |-> "ValueInt64", key |-> FnTwiceKey, v |-> 0,
                       outer |-> [op |-> "Snapshot", key |-> key, keys |-> rest,
                                  snap |-> p.snap]]]
                 /\ UNCHANGED ret
            ELSE LET r == GMCall(e.fn, gm) IN
                 IF r.panic
                 THEN /\ gmc' = GMCUnwind(gmc, t)
                      /\ ret' = [op |-> "Snapshot", by |-> t, panic |-> TRUE]
                 ELSE /\ gmc' = [gmc EXCEPT !.at[t] =
                           [p EXCEPT !.keys = rest,
                                     !.snap = IF e.t = "IntValueFunc"
                                              THEN [p.snap EXCEPT !.i = Put(p.snap.i, key, r.val.v)]
                                              ELSE [p.snap EXCEPT !.f = Put(p.snap.f, key, r.val.v)]]]
                      /\ UNCHANGED ret
    /\ UNCHANGED <<held, now, condVars, pcVars, gm, gmLog, dmVars>>

\* g.RLock() returns
GMCRLock(t) ==
    /\ gmc.at[t].at = "RLock"
    /\ GMCCanRLock(gmc)
    /\ gmc' = [gmc EXCEPT !.r[t] = @ + 1, !.at[t].at = "read"]
    /\ UNCHANGED <<held, now, condVars, pcVars, gm, gmLog, dmVars, ret>>

\* What the caller of a finished ValueInt64 does with its result x
GMCReturn(c, t, outer, x) ==
    IF outer.op = "Snapshot"
    THEN [c EXCEPT !.r[t] = @ - 1,
                   !.at[t] = [at |-> "loop", op |-> "Snapshot", keys |-> outer.keys,
                              snap |-> [i |-> Put(outer.snap.i, outer.key, FnTwiceOf(x)),
                                        f |-> outer.snap.f]]]
    ELSE GMCUnwind(c, t)

\* The body of ValueInt64 under the read lock, and the deferred RUnlock
GMCRead(t) ==
    /\ gmc.at[t].at = "read"
    /\ LET p == gmc.at[t]
           res(x) == IF p.outer.op = "none" THEN x ELSE FnTwiceOf(x)
       IN
       IF ~Has(gm.value, p.key) \/ gm.value[p.key].t \notin {"int64", "IntValueFunc"}
       THEN /\ gmc' = GMCUnwind(gmc, t)
            /\ ret' = [op |-> IF p.outer.op = "Snapshot" THEN "Snapshot" ELSE "ValueInt64",
                       by |-> t, panic |-> TRUE]
       ELSE LET e == gm.value[p.key] IN
            IF e.t = "int64"
            THEN /\ gmc' = GMCReturn(gmc, t, p.outer, e.v)
                 /\ ret' = IF p.outer.op = "Snapshot" THEN ret
                           ELSE [op |-> "ValueInt64", by |-> t, panic |-> FALSE,
                                 val |-> res(e.v)]
            ELSE IF e.fn \in GMCMethodFns
            THEN /\ gmc' = [gmc EXCEPT !.at[t] =
                      [at |-> "RLock", op |-> "ValueInt64", key |-> FnTwiceKey, v |-> 0,
                       outer |-> [op |-> "ValueInt64", key |-> p.key]]]
                 /\ UNCHANGED ret
            ELSE LET r == GMCall(e.fn, gm) IN
                 /\ gmc' = GMCUnwind(gmc, t)
                 /\ ret' = IF r.panic
                           THEN [op |-> "ValueInt64", by |-> t, panic |-> TRUE]
                           ELSE [op |-> "ValueInt64", by |-> t, panic |-> FALSE,
                                 val |-> r.val.v]
    /\ UNCHANGED <<held, now, condVars, pcVars, gm, gmLog, dmVars>>

-----------------------------------------------------------------------------
(* VariableStore: StandardDataMap (datamap.go) *)

\* reflect.Type tags of the instruments generateMeter knows
condIntType == "*StandardCondInt"
condFloatType == "*StandardCondFloat"
gaugeType == "*StandardGauge"

\* The alignment modulus setPeriod picks for a duration, in seconds
DMMod(du) ==
    CASE du = M5 -> 300
      [] du = M15 -> 15 * 60
      [] du = M30 -> 30 * 60
      [] du = H1 -> 3600
      [] du = D1 -> 86400
      [] OTHER -> IF du < M1 THEN 1 ELSE 60

\* setPeriod(p, du, tm), du # 0, the caller holding the lock; du # D1 in this model
DMsetPeriod(g, p, du, tm) ==
    IF Has(g.periods, p) THEN g
    ELSE [g EXCEPT !.periods = Put(g.periods, p, du),
                   !.nextTs = Put(g.nextTs, p, AlignNext(Unix(tm), DMMod(du)))]

RECURSIVE DMSetPeriodsLoop(_, _, _, _)
DMSetPeriodsLoop(g, ps, labels, tm) ==
    IF labels = {} THEN g
    ELSE LET p == CHOOSE x \in labels : TRUE
         IN  DMSetPeriodsLoop(DMsetPeriod(g, p, ps[p], tm), ps, labels \ {p}, tm)

\* SetPeriods(p): every label of p through setPeriod, at one reading of the clock
DMSetPeriodsOf(g, ps, tm) == DMSetPeriodsLoop(g, ps, DOMAIN ps, tm)

\* SetDependentVar(key, fn, typ, period) at time tm, fn of an accepted type
DMSetDependentVarOf(g, key, fn, typ, period, tm) ==
    [g EXCEPT !.dependentVars = Put(g.dependentVars, key,
        [Name |-> key, Func |-> fn, Typ |-> typ, Period |-> period, lastSnap |-> tm])]

\* the type switch of SetDependentVar
DMFuncKind(fn) ==
    CASE fn.t \in {"IntValueFunc", "func(DataMap) int64"} -> "IntValueFunc"
      [] fn.t \in {"FloatValueFunc", "func(DataMap) float64"} -> "FloatValueFunc"
      [] OTHER -> "invalid"

\* SetDependentVar(key, fn, typ, period) for any fn: the default branch panics
\* before dependentVars is written
DMSetDependentVarChecked(g, key, fn, typ, period, tm) ==
    LET kind == DMFuncKind(fn) IN
    IF kind = "invalid" THEN [panic |-> TRUE, g |-> g]
    ELSE [panic |-> FALSE,
          g |-> DMSetDependentVarOf(g, key, [fn EXCEPT !.t = kind], typ, period, tm)]

RECURSIVE DMSetDependentVarsLoop(_, _, _, _)
DMSetDependentVarsLoop(g, dvs, keys, tm) ==
    IF keys = {} THEN g
    ELSE LET k == CHOOSE x \in keys : TRUE
         IN  DMSetDependentVarsLoop(
                 DMSetDependentVarOf(g, k, dvs[k].Func, dvs[k].Typ, dvs[k].Period, tm),
                 dvs, keys \ {k}, tm)

\* the prefix argument the stores are constructed with
DMPrefix == "dm"

\* NewDataMap(prefix, opt) at time tm, opt # nil
NewDataMap(opt, tm) ==
    LET g0 == [prefix |-> DMPrefix,
               minInterval |-> IF opt.Interval # 0 THEN opt.Interval ELSE Sec(60),
               latestSnapshot |-> tm,
               values |-> EmptyMap,
               valuesHistory |-> EmptyMap,
               keyTypes |-> opt.KeyTypes,
               keyPeriod |-> IF opt.KeyPeriod # 0 THEN opt.KeyPeriod ELSE opt.Interval,
               dependentVars |-> EmptyMap,
               periods |-> EmptyMap,
               nextTs |-> EmptyMap]
        g1 == DMSetPeriodsOf(g0, opt.Periods, tm)
    IN  DMSetDependentVarsLoop(g1, opt.DependentVars, DOMAIN opt.DependentVars, tm)

\* a gate that stamps latestSnapshot on a rejected call too
snapshotableStampAlways(g, tm) ==
    [ok |-> tm - g.latestSnapshot > g.minInterval, g |-> [g EXCEPT !.latestSnapshot = tm]]

\* snapshotable(): tm.Sub(g.latestSnapshot) > g.minInterval
snapshotable(g, tm) ==
    IF tm - g.latestSnapshot > g.minInterval
    THEN [ok |-> TRUE, g |-> [g EXCEPT !.latestSnapshot = tm]]
    ELSE [ok |-> FALSE, g |-> g]

\* ValueInt64(key): 0 when key has no value, v.(int64) otherwise
DMValueInt64Of(g, key) ==
    IF ~Has(g.values, key) THEN [panic |-> FALSE, v |-> 0]
    ELSE IF g.values[key].t = "int64" THEN [panic |-> FALSE, v |-> g.values[key].v]
    ELSE [panic |-> TRUE]

\* ValueFloat64(key): 0.0 when key has no value, vf.(float64) otherwise
DMValueFloat64Of(g, key) ==
    IF ~Has(g.values, key) THEN [panic |-> FALSE, v |-> FloatOf(0)]
    ELSE IF g.values[key].t = "float64" THEN [panic |-> FALSE, v |-> g.values[key].v]
    ELSE [panic |-> TRUE]

\* ValueHistory(key, period): (his[key], true) when the period has a bucket;
\* his[key] is nil when the bucket does not hold key
ValueHistoryRegistered(g, key, period) ==
    IF Has(g.periods, period)
    THEN IF Has(g.valuesHistory, period) /\ Has(g.valuesHistory[period], key)
         THEN [found |-> TRUE, isNil |-> FALSE, val |-> g.valuesHistory[period][key]]
         ELSE [found |-> TRUE, isNil |-> TRUE]
    ELSE [found |-> FALSE, isNil |-> TRUE]

ValueHistoryOf(g, key, period) ==
    IF Has(g.valuesHistory, period)
    THEN IF Has(g.valuesHistory[period], key)
         THEN [found |-> TRUE, isNil |-> FALSE, val |-> g.valuesHistory[period][key]]
         ELSE [found |-> TRUE, isNil |-> TRUE]
    ELSE [found |-> FALSE, isNil |-> TRUE]

\* The dependent function intHistoryFn(k, p) of the reference test:
\* vc - history(k, p), or vc when the period has no bucket; vs5.(int64) panics
\* on a nil or a float64
intHistoryFn(g, k, p) ==
    LET vc == DMValueInt64Of(g, k)
        h == ValueHistoryOf(g, k, p)
    IN  IF vc.panic THEN [panic |-> TRUE]
        ELSE IF ~h.found THEN [panic |-> FALSE, val |-> IntV(vc.v)]
        ELSE IF h.isNil \/ h.val.t # "int64" THEN [panic |-> TRUE]
        ELSE [panic |-> FALSE, val |-> IntV(vc.v - h.val.v)]

\* a float64-returning function over the store: g.ValueFloat64(k)
floatValueFn(g, k) ==
    LET r == DMValueFloat64Of(g, k) IN
    IF r.panic THEN [panic |-> TRUE] ELSE [panic |-> FALSE, val |-> FloatV(r.v)]

\* fn(g) for a registered dependent function
DMCall(fn, g) ==
    IF fn.t = "FloatValueFunc" THEN floatValueFn(g, fn.k) ELSE intHistoryFn(g, fn.k, fn.p)

\* NewCondInt(period) / NewCondFloat(period) at time tm: value 0, lastSnap now
NewRegisteredCond(typ, period, tm) ==
    [kind |-> typ, period |-> period, lastSnap |-> tm, born |-> tm,
     value |-> IF typ = condIntType THEN IntV(0) ELSE FloatV(FloatOf(0))]

\* GetOrRegisterCondInt / GetOrRegisterCondFloat(name, r, period): the
\* instrument registered under name, or a new one constructed by the factory
\* and registered; the type assertion on the result panics when the name
\* holds an instrument of the other kind
GetOrRegisterCond(reg, name, typ, period, tm) ==
    IF Has(reg, name)
    THEN [panic |-> reg[name].kind # typ, reg |-> reg]
    ELSE [panic |-> FALSE, reg |-> Put(reg, name, NewRegisteredCond(typ, period, tm))]

\* generateMeter's second half: the instrument named prefix-key of the
\* registered type, updated with val; nil for any other type; val.(int64) /
\* val.(float64) may panic, after the instrument was fetched
DMMeter(g, key, val, typ, period, reg, tm) ==
    IF typ \in {condIntType, condFloatType}
    THEN LET name == g.prefix \o "-" \o key
             r == GetOrRegisterCond(reg, name, typ, period, tm)
             want == IF typ = condIntType THEN "int64" ELSE "float64"
         IN  IF r.panic \/ val.t # want
             THEN [panic |-> TRUE, reg |-> r.reg]
             ELSE [panic |-> FALSE,
                   reg |-> [r.reg EXCEPT ![name].value = val],
                   m |-> [isNil |-> FALSE, name |-> name, val |-> val]]
    ELSE [panic |-> FALSE, reg |-> reg, m |-> [isNil |-> TRUE]]

\* Snapshot's first loop: a meter for every typed key that has a value.
\* acc = [panic, meters, reg, n], n the number of appends to meters
RECURSIVE DMIndependentLoop(_, _, _, _)
DMIndependentLoop(g, keys, acc, tm) ==
    IF keys = {} \/ acc.panic THEN acc
    ELSE LET k == CHOOSE x \in keys : TRUE IN
         IF ~Has(g.values, k) THEN DMIndependentLoop(g, keys \ {k}, acc, tm)
         ELSE LET r == DMMeter(g, k, g.values[k], g.keyTypes[k], g.keyPeriod, acc.reg, tm) IN
              DMIndependentLoop(g, keys \ {k},
                  IF r.panic THEN [acc EXCEPT !.panic = TRUE, !.reg = r.reg]
                  ELSE [acc EXCEPT !.meters = Put(acc.meters, k, r.m), !.reg = r.reg,
                                   !.n = acc.n + 1],
                  tm)

\* now.Sub(t.lastSnap) >= t.Period
DMDependentDueStrict(t, tm) == tm - t.lastSnap > t.Period
DMDependentDue(t, tm) == tm - t.lastSnap >= t.Period

\* One iteration of Snapshot's second loop, for the dependent variable k at the
\* clock reading tm: the stamp is set, then the function is called on the store;
\* tc is the clock when the instrument is fetched.
\* st = [g, panic, meters, invoked, reg, n]
DMDependentStep(st, k, tm, tc) ==
    LET t == st.g.dependentVars[k] IN
    IF ~DMDependentDue(t, tm) THEN st
    ELSE LET g1 == [st.g EXCEPT !.dependentVars[k].lastSnap = tm]
             r == DMCall(t.Func, g1)
             m == IF r.panic THEN [panic |-> TRUE, reg |-> st.reg]
                  ELSE DMMeter(g1, k, r.val, t.Typ, t.Period, st.reg, tc)
         IN  [g |-> g1,
              panic |-> m.panic,
              meters |-> IF m.panic THEN st.meters ELSE Put(st.meters, k, m.m),
              invoked |-> st.invoked \cup {k},
              reg |-> m.reg,
              n |-> IF m.panic THEN st.n ELSE st.n + 1]

\* The second loop in the order ord (Go ranges over a map in no fixed order)
RECURSIVE DMDependentLoop(_, _, _, _)
DMDependentLoop(st, ord, i, tm) ==
    IF i > Len(ord) \/ st.panic THEN st
    ELSE DMDependentLoop(DMDependentStep(st, ord[i], tm, tm), ord, i + 1, tm)

\* a catch-up that steps a boundary past ts in one call
RECURSIVE updateHistoryLoopFastForward(_, _, _)
updateHistoryLoopFastForward(g, labels, ts) ==
    IF labels = {} THEN g
    ELSE LET p == CHOOSE x \in labels : TRUE
             secs == DurSeconds(g.periods[p])
         IN  IF ts >= g.nextTs[p]
             THEN updateHistoryLoopFastForward(
                      [g EXCEPT !.valuesHistory = Put(g.valuesHistory, p, g.values),
                                !.nextTs[p] = g.nextTs[p]
                                              + ((ts - g.nextTs[p]) \div secs + 1) * secs],
                      labels \ {p}, ts)
             ELSE updateHistoryLoopFastForward(g, labels \ {p}, ts)

\* updateHistory() at ts = time.Now().Unix(): every period whose boundary has
\* been reached copies values into its bucket and steps its boundary once
RECURSIVE updateHistoryLoop(_, _, _)
updateHistoryLoop(g, labels, ts) ==
    IF labels = {} THEN g
    ELSE LET p == CHOOSE x \in labels : TRUE
             his == IF Has(g.valuesHistory, p) THEN g.valuesHistory[p] ELSE EmptyMap
             merged == [k \in DOMAIN his \cup DOMAIN g.values |->
                           IF Has(g.values, k) THEN g.values[k] ELSE his[k]]
         IN  IF ts >= g.nextTs[p]
             THEN updateHistoryLoop(
                      [g EXCEPT !.valuesHistory = Put(g.valuesHistory, p, merged),
                                !.nextTs[p] = g.nextTs[p] + DurSeconds(g.periods[p])],
                      labels \ {p}, ts)
             ELSE updateHistoryLoop(g, labels \ {p}, ts)

updateHistory(g, ts) == updateHistoryLoop(g, DOMAIN g.nextTs, ts)

\* The orders in which a range loop may visit the key set S
Orders(S) ==
    {s \in [1..Cardinality(S) -> S] : \A i, j \in 1..Cardinality(S) : s[i] = s[j] => i = j}

\* What Snapshot hands back after the gate: meters is declared as a nil slice
\* and stays nil when nothing was appended to it
DMSnapshotResult(g, accepted, panic, meters, invoked, reg, n) ==
    [g |-> g, accepted |-> accepted, panic |-> panic,
     isNil |-> ~accepted \/ n = 0,
     meters |-> meters, invoked |-> invoked, reg |-> reg, n |-> n]

\* a Snapshot that rolls the buckets before it evaluates the functions
DMSnapshotOfRollFirst(g, reg, ord, t1, t2, t3) ==
    LET gate == snapshotable(g, t1) IN
    IF ~gate.ok
    THEN DMSnapshotResult(gate.g, FALSE, FALSE, EmptyMap, {}, reg, 0)
    ELSE LET g2 == updateHistory(gate.g, Unix(t3))
             ind == DMIndependentLoop(g2, DOMAIN g2.keyTypes,
                                      [panic |-> FALSE, meters |-> EmptyMap,
                                       reg |-> reg, n |-> 0], t1)
             dep == DMDependentLoop([g |-> g2, panic |-> ind.panic,
                                     meters |-> ind.meters, invoked |-> {},
                                     reg |-> ind.reg, n |-> ind.n],
                                    ord, 1, t2)
         IN  DMSnapshotResult(dep.g, TRUE, dep.panic, dep.meters, dep.invoked,
                              dep.reg, dep.n)

\* Snapshot(r), the three readings of the clock being t1 <= t2 <= t3
DMSnapshotOf(g, reg, ord, t1, t2, t3) ==
    LET gate == snapshotable(g, t1) IN
    IF ~gate.ok
    THEN DMSnapshotResult(gate.g, FALSE, FALSE, EmptyMap, {}, reg, 0)
    ELSE LET ind == DMIndependentLoop(gate.g, DOMAIN gate.g.keyTypes,
                                      [panic |-> FALSE, meters |-> EmptyMap,
                                       reg |-> reg, n |-> 0], t1)
             dep == DMDependentLoop([g |-> gate.g, panic |-> ind.panic,
                                     meters |-> ind.meters, invoked |-> {},
                                     reg |-> ind.reg, n |-> ind.n],
                                    ord, 1, t2)
         IN  IF dep.panic
             THEN DMSnapshotResult(dep.g, TRUE, TRUE, dep.meters, dep.invoked,
                                   dep.reg, dep.n)
             ELSE DMSnapshotResult(updateHistory(dep.g, Unix(t3)), TRUE, FALSE,
                                   dep.meters, dep.invoked, dep.reg, dep.n)

\* an update that writes through to the buckets
DMUpdateOfIntoBuckets(g, key, val) ==
    [g EXCEPT !.values = Put(g.values, key, val),
              !.valuesHistory = [p \in DOMAIN g.valuesHistory |->
                                    Put(g.valuesHistory[p], key, val)]]

\* UpdateInt64(key, v) / UpdateFloat64(key, v): g.values[key] = v
DMUpdateOf(g, key, val) == [g EXCEPT !.values = Put(g.values, key, val)]

\* What an observer of the store writes down after a step from g to g2 at
\* time tm: the contents of values at each roll of a period, the time of each
\* invocation of a dependent function, the time of the last non-nil Snapshot
DMObserve(obs, g, g2, tm, invoked, nonNil) ==
    [first |-> obs.first,
     rolled |-> [p \in DOMAIN obs.rolled \cup {q \in DOMAIN g.nextTs : g2.nextTs[q] # g.nextTs[q]} |->
                   IF g2.nextTs[p] # g.nextTs[p] THEN g.values ELSE obs.rolled[p]],
     evalAt |-> [k \in DOMAIN obs.evalAt \cup invoked |->
                   IF k \in invoked THEN tm ELSE obs.evalAt[k]],
     lastNonNil |-> IF nonNil THEN tm ELSE obs.lastNonNil]

\* sync.RWMutex of the store: free, or held by the Snapshot in progress
DMLockIgnored(c) == TRUE
DMLockFree(c) == c.lock = "free"

DMCIdle ==
    [lock |-> "free", pc |-> "idle", tm |-> 0, todo |-> {}, meters |-> EmptyMap,
     n |-> 0, invoked |-> {}, view |-> [values |-> EmptyMap, valuesHistory |-> EmptyMap]]

MaxSecondsDM == 6
DMStarts == {Sec(10), Sec(10) + 1}
DMIntervals == {Sec(1), Sec(2)}
DMOwnPeriods == {Sec(1), Sec(3)}
DMPeriods == ("s2" :> Sec(2))
DMKeyTypes == ("a" :> condIntType)
DMIntUpdates == {<<"a", 1>>, <<"a", 2>>}
DMFloatUpdates == {<<"b", FloatDiv(1, 2)>>}
DMQueryKeys == {"a", "b"}
DMQueryPeriods == {"s2", "none"}
DMDependentKeys == {"a-s2"}

\* The options the store is built from: one independent typed key, one period,
\* one dependent variable (the change of "a" against the "s2" bucket)
DMOptions ==
    {[Interval |-> i, KeyPeriod |-> 0, Periods |-> DMPeriods, KeyTypes |-> DMKeyTypes,
      DependentVars |-> [k \in DMDependentKeys |->
                                   [Func |-> [t |-> "IntValueFunc", k |-> "a", p |-> "s2"],
                                    Typ |-> condIntType, Period |-> op]]] :
        i \in DMIntervals, op \in DMOwnPeriods}

DMUpdateInt64(key, v) ==
    /\ DMLockFree(dmc)
    /\ dm' = DMUpdateOf(dm, key, IntV(v))
    /\ ret' = [op |-> "UpdateInt64", key |-> key]
    /\ UNCHANGED <<held, now, condVars, pcVars, gmVars, dmObs, dmc, registry>>

DMUpdateFloat64(key, v) ==
    /\ DMLockFree(dmc)
    /\ dm' = DMUpdateOf(dm, key, FloatV(v))
    /\ ret' = [op |-> "UpdateFloat64", key |-> key]
    /\ UNCHANGED <<held, now, condVars, pcVars, gmVars, dmObs, dmc, registry>>

DMValueHistory(key, period) ==
    /\ ret' = [op |-> "ValueHistory", key |-> key, period |-> period,
               res |-> ValueHistoryOf(dm, key, period)]
    /\ UNCHANGED <<held, now, condVars, pcVars, gmVars, dmVars>>

\* SetDependentVar(key, fn, typ, period)
DMSetDependentVar(key, fn, typ, period) ==
    LET r == DMSetDependentVarChecked(dm, key, fn, typ, period, now) IN
    /\ DMLockFree(dmc)
    /\ dm' = r.g
    /\ ret' = [op |-> "SetDependentVar", key |-> key, fn |-> fn, panic |-> r.panic]
    /\ UNCHANGED <<held, now, condVars, pcVars, gmVars, dmObs, dmc, registry>>

\* ValueInt64(key)
DMValueInt64(key) ==
    /\ ret' = [op |-> "ValueInt64", key |-> key, res |-> DMValueInt64Of(dm, key)]
    /\ UNCHANGED <<held, now, condVars, pcVars, gmVars, dmVars>>

\* Snapshot(r) run from Lock to Unlock with no other call in between
DMSnapshot ==
    /\ dmc.pc = "idle"
    /\ \E ord \in Orders(DOMAIN dm.dependentVars) :
         LET r == DMSnapshotOf(dm, registry, ord, now, now, now) IN
         /\ dm' = r.g
         /\ registry' = r.reg
         /\ dmObs' = DMObserve(dmObs, dm, r.g, now, r.invoked, ~r.panic /\ ~r.isNil)
         /\ ret' = [op |-> "Snapshot", accepted |-> r.accepted, panic |-> r.panic,
                    isNil |-> r.isNil, meters |-> r.meters, invoked |-> r.invoked,
                    n |-> r.n]
    /\ UNCHANGED <<held, now, condVars, pcVars, gmVars, dmc>>

DMTick ==
    /\ Tick({1}, Sec(10) + Sec(MaxSecondsDM))
    /\ UNCHANGED <<held, condVars, pcVars, gmVars, dmVars>>

\* Periods(), Keys(), DependentKeys(): a slice of len(m) empty strings, then
\* ps[i] = k for every key k of the map in the order the range yields them,
\* with i := 0 never incremented
RECURSIVE DMEnumLoop(_, _, _)
DMEnumLoop(ps, i, order) ==
    IF order = <<>> THEN ps
    ELSE DMEnumLoop([ps EXCEPT ![i + 1] = Head(order)], i, Tail(order))

DMEnumerate(order) == DMEnumLoop([j \in 1..Len(order) |-> ""], 0, order)

\* The map each enumeration ranges over
DMEnumerated(g, op) ==
    CASE op = "Periods" -> g.periods
      [] op = "Keys" -> g.values
      [] op = "DependentKeys" -> g.dependentVars

DMEnumOps == {"Periods", "Keys", "DependentKeys"}

\* One of the three enumerations; the range over a Go map yields its keys in
\* any order
DMEnumeration(op) ==
    /\ DMLockFree(dmc)
    /\ \E order \in Orders(DOMAIN DMEnumerated(dm, op)) :
         ret' = [op |-> op, names |-> DMEnumerate(order)]
    /\ UNCHANGED <<held, now, condVars, pcVars, gmVars, dmVars>>

\* Snapshot(r) in the steps other goroutines can interleave with.
\* Lock, snapshotable and the loop over keyTypes
DMCBegin ==
    /\ dmc.pc = "idle" /\ DMLockFree(dmc)
    /\ LET gate == snapshotable(dm, now)
           ind == DMIndependentLoop(gate.g, DOMAIN gate.g.keyTypes,
                                    [panic |-> FALSE, meters |-> EmptyMap,
                                     reg |-> registry, n |-> 0], now)
       IN  IF gate.ok /\ ~ind.panic
           THEN /\ dm' = gate.g
                /\ registry' = ind.reg
                /\ dmc' = [lock |-> "held", pc |-> "now", tm |-> 0, todo |-> {},
                           meters |-> ind.meters, n |-> ind.n, invoked |-> {},
                           view |-> [values |-> dm.values,
                                     valuesHistory |-> dm.valuesHistory]]
                /\ ret' = [op |-> "Snapshot.begin"]
           ELSE /\ dm' = gate.g
                /\ registry' = IF gate.ok THEN ind.reg ELSE registry
                /\ dmc' = DMCIdle
                /\ ret' = [op |-> "Snapshot", accepted |-> gate.ok, panic |-> gate.ok,
                           isNil |-> TRUE, meters |-> EmptyMap, invoked |-> {},
                           n |-> 0]
    /\ UNCHANGED <<held, now, condVars, pcVars, gmVars, dmObs>>

\* now := time.Now()
DMCReadNow ==
    /\ dmc.pc = "now"
    /\ dmc' = [dmc EXCEPT !.pc = "deps", !.tm = now, !.todo = DOMAIN dm.dependentVars]
    /\ ret' = [op |-> "Snapshot.now"]
    /\ UNCHANGED <<held, now, condVars, pcVars, gmVars, dm, dmObs, registry>>

\* One iteration of the loop over dependentVars; a panic of the function
\* leaves Snapshot through the deferred Unlock
DMCDependent(k) ==
    /\ dmc.pc = "deps" /\ k \in dmc.todo
    /\ LET st == DMDependentStep([g |-> dm, panic |-> FALSE, meters |-> dmc.meters,
                                  invoked |-> dmc.invoked, reg |-> registry,
                                  n |-> dmc.n], k, dmc.tm, now)
       IN  /\ dm' = st.g
           /\ registry' = st.reg
           /\ dmObs' = DMObserve(dmObs, dm, st.g, dmc.tm, st.invoked \ dmc.invoked, FALSE)
           /\ IF st.panic
              THEN /\ dmc' = DMCIdle
                   /\ ret' = [op |-> "Snapshot", accepted |-> TRUE, panic |-> TRUE,
                              isNil |-> FALSE, meters |-> st.meters,
                              invoked |-> st.invoked, n |-> st.n]
              ELSE /\ dmc' = [dmc EXCEPT !.todo = dmc.todo \ {k}, !.meters = st.meters,
                                         !.invoked = st.invoked, !.n = st.n]
                   /\ ret' = [op |-> "Snapshot.dependent", key |-> k,
                              invoked |-> k \in st.invoked]
    /\ UNCHANGED <<held, now, condVars, pcVars, gmVars>>

\* updateHistory(), return meters, the deferred Unlock
DMCHistory ==
    /\ dmc.pc = "deps" /\ dmc.todo = {}
    /\ LET r == DMSnapshotResult(updateHistory(dm, Unix(now)), TRUE, FALSE,
                                 dmc.meters, dmc.invoked, registry, dmc.n)
       IN  /\ dm' = r.g
           /\ dmObs' = DMObserve(dmObs, dm, r.g, now, {}, ~r.isNil)
           /\ ret' = [op |-> "Snapshot", accepted |-> TRUE, panic |-> FALSE,
                      isNil |-> r.isNil, meters |-> r.meters, invoked |-> r.invoked,
                      n |-> r.n]
    /\ dmc' = DMCIdle
    /\ UNCHANGED <<held, now, condVars, pcVars, gmVars, registry>>

-----------------------------------------------------------------------------
(* Snapshot objects: CondIntSnapshot, CondFloatSnapshot, PeriodCounterSnapshot,
   GaugeMapSnapshot and their mutators *)

\* The snapshot object the last call returned, and its type
HeldKind(r) ==
    IF r.op = "Snapshot.mutator" THEN r.of
    ELSE IF r.op # "Snapshot" THEN "none"
    ELSE IF "kind" \in DOMAIN r THEN "cond"
    ELSE IF "periodCounts" \in DOMAIN r.snap THEN "counter"
    ELSE "gauge"

HeldSnap(r) ==
    IF r.op = "Snapshot" /\ "kind" \in DOMAIN r
    THEN [kind |-> r.kind, value |-> r.value, writable |-> r.writable]
    ELSE r.snap

PCSnapshotMutators == {"Clear", "Inc", "SetPeriod", "SetPeriods"}
GMSnapshotMutators == {"UpdateInt64", "UpdateFloat64", "SetFuncKey"}
CondSnapshotMutators == {"Update"}

\* a mutator that returns without touching the snapshot
SnapshotMutatorNoOp(snap, m) == [panic |-> FALSE, snap |-> snap]

\* PeriodCounterSnapshot.Clear / Inc / SetPeriod / SetPeriods: panic(...)
PCSnapshotMutatorOf(snap, m) == [panic |-> TRUE, snap |-> snap]

\* GaugeMapSnapshot.UpdateInt64 / UpdateFloat64 / SetFuncKey: panic(...)
GMSnapshotMutatorOf(snap, m) == [panic |-> TRUE, snap |-> snap]

\* CondIntSnapshot.Update / CondFloatSnapshot.Update: panic(...)
CondSnapshotMutatorOf(snap, m) == [panic |-> TRUE, snap |-> snap]

SnapshotMutator(of, m, r) ==
    /\ HeldKind(ret) = of
    /\ ret' = [op |-> "Snapshot.mutator", of |-> of, m |-> m, snap |-> r.snap,
               panic |-> r.panic]
    /\ UNCHANGED <<held, now, condVars, pcVars, gmVars, dmVars>>

PCSnapshotMutator(m) ==
    SnapshotMutator("counter", m, PCSnapshotMutatorOf(HeldSnap(ret), m))

GMSnapshotMutator(m) ==
    SnapshotMutator("gauge", m, GMSnapshotMutatorOf(HeldSnap(ret), m))

CondSnapshotMutator(m) ==
    SnapshotMutator("cond", m, CondSnapshotMutatorOf(HeldSnap(ret), m))

-----------------------------------------------------------------------------
(* Function registration on the gauge and on the store *)

MaxSecondsFn == 2
GMFnInputs ==
    {IntFn("sum"), FloatFn("ratio"),
     [t |-> "func(GaugeMap) int64", fn |-> "sum"],
     [t |-> "func(GaugeMap) float64", fn |-> "ratio"],
     [t |-> "func(GaugeMap) string", fn |-> "sum"],
     [t |-> "int64", fn |-> "sum"]}
DMFnInputs ==
    {[t |-> "IntValueFunc", k |-> "a", p |-> "s2"],
     [t |-> "func(DataMap) int64", k |-> "a", p |-> "s2"],
     [t |-> "func(DataMap) float64", k |-> "b", p |-> "s2"],
     [t |-> "func(DataMap) string", k |-> "a", p |-> "s2"],
     [t |-> "nil", k |-> "a", p |-> "s2"]}
FnOptions ==
    [Interval |-> Sec(1), KeyPeriod |-> 0, Periods |-> DMPeriods,
     KeyTypes |-> DMKeyTypes, DependentVars |-> EmptyMap]

FnTick ==
    /\ Tick({Sec(1) + 1}, Sec(10) + Sec(MaxSecondsFn))
    /\ UNCHANGED <<held, condVars, pcVars, gmVars, dmVars>>

-----------------------------------------------------------------------------
(* Descriptors of a store with keys of several types *)

MaxSecondsMeter == 4
MeterKeyTypes == ("a" :> condIntType) @@ ("r" :> condFloatType) @@ ("g" :> gaugeType)
MeterIntUpdates == {<<"a", 1>>, <<"a", 2>>, <<"g", 7>>}
MeterFloatUpdates == {<<"r", FloatDiv(1, 2)>>, <<"a", FloatDiv(1, 2)>>}
MeterOptions ==
    [Interval |-> Sec(1), KeyPeriod |-> 0, Periods |-> DMPeriods,
     KeyTypes |-> MeterKeyTypes,
     DependentVars |-> ("a-s2" :> [Func |-> [t |-> "IntValueFunc", k |-> "a", p |-> "s2"],
                                   Typ |-> condIntType, Period |-> Sec(2)])]

MeterTick ==
    /\ Tick({Sec(1) + 1}, Sec(10) + Sec(MaxSecondsMeter))
    /\ UNCHANGED <<held, condVars, pcVars, gmVars, dmVars>>

-----------------------------------------------------------------------------
(* A store with several periods, keys and dependent variables, enumerated *)

MaxSecondsEnum == 2
EnumPeriods == ("s2" :> Sec(2)) @@ ("s3" :> Sec(3))
EnumKeyTypes == ("a" :> condIntType) @@ ("b" :> condIntType)
EnumIntUpdates == {<<"a", 1>>, <<"b", 1>>, <<"b", 2>>}
EnumOptions ==
    [Interval |-> Sec(1), KeyPeriod |-> 0, Periods |-> EnumPeriods,
     KeyTypes |-> EnumKeyTypes,
     DependentVars |-> [k \in {"a-s2", "b-s2"} |->
                          [Func |-> [t |-> "IntValueFunc", k |-> "a", p |-> "s2"],
                           Typ |-> condIntType, Period |-> Sec(2)]]]

EnumTick ==
    /\ Tick({Sec(1)}, Sec(10) + Sec(MaxSecondsEnum))
    /\ UNCHANGED <<held, condVars, pcVars, gmVars, dmVars>>

-----------------------------------------------------------------------------
(* An exporter loop calling a counter that has fallen behind the clock *)

\* The loop sleeps one call interval, then makes one call.  The counter was
\* built at CatchStart and nothing called it for the length of the stall.
\* Times are kept relative to an origin that moves forward by CatchShift
\* whenever the clock passes CatchStart + MaxSecondsCatch: the counter's
\* handlers compare and subtract times only, so moving every time alike
\* changes nothing they do, and the clock can advance for ever.
MaxSecondsCatch == 300
CatchStart == Sec(3600)
CatchShift == Sec(180)
CatchLabel == "w"
CatchDurations == {M1, Sec(90)}
CatchStalls == {Sec(130), Sec(200), Sec(215)}
CatchSteps == {Sec(30), M1}

\* the longest interval between two calls of the loop
CatchMaxStep == M1

\* the counter with the boundaries it holds moved back by du; lastSnap, which
\* only Snapshot and Writable read, stays: the loop calls neither
PCReorigin(c, du) ==
    [c EXCEPT !.nextTs = [p \in DOMAIN c.nextTs |-> c.nextTs[p] - DurSeconds(du)]]

CatchTick ==
    /\ ret.op # "Tick"
    /\ \E d \in CatchSteps :
         IF now + d > CatchStart + Sec(MaxSecondsCatch)
         THEN /\ now' = now + d - CatchShift
              /\ pc' = PCReorigin(pc, CatchShift)
              /\ pcRoll' = [p \in DOMAIN pcRoll |->
                              [pcRoll[p] EXCEPT !.at = @ - DurSeconds(CatchShift),
                                                !.nb = @ - DurSeconds(CatchShift)]]
         ELSE /\ now' = now + d
              /\ UNCHANGED <<pc, pcRoll>>
    /\ ret' = [op |-> "Tick"]
    /\ UNCHANGED <<held, condVars, pcLog, pcc, gmVars, dmVars>>

\* the one call the loop makes after each sleep
CatchCall ==
    /\ ret.op \in {"Tick", "New"}
    /\ PCLatestPeriodCountRate(CatchLabel)

-----------------------------------------------------------------------------
(* Snapshots a caller keeps while the live instruments go on *)

MaxTimeHeld == 330
HeldStart == Sec(100)
HeldKinds == {"gauge", "counter"}
HeldKeys == {"i", "f", "delta", "none"}
HeldLabels == {"1m", "none"}

\* GaugeMapSnapshot.Value(key): g.i[key], else g.f[key], else nil
GMSnapshotValueOf(snap, key) ==
    IF Has(snap.i, key) THEN [isNil |-> FALSE, val |-> IntV(snap.i[key])]
    ELSE IF Has(snap.f, key) THEN [isNil |-> FALSE, val |-> FloatV(snap.f[key])]
    ELSE [isNil |-> TRUE]

\* a Snapshot() of a snapshot that hands back a new, empty object
GMSnapshotSnapshotFresh(snap) == [snap EXCEPT !.i = EmptyMap, !.f = EmptyMap]

\* GaugeMapSnapshot.Snapshot(): return g
GMSnapshotSnapshotOf(snap) == snap

\* PeriodCounterSnapshot.Snapshot(): return pcs
PCSnapshotSnapshotOf(snap) == snap

\* Everything a caller can read from a snapshot: Value of every key, or Count,
\* Writable and LatestPeriodCountRate of every label
SnapshotReads(kind, snap) ==
    IF kind = "gauge"
    THEN [key \in HeldKeys |-> GMSnapshotValueOf(snap, key)]
    ELSE [count |-> snap.count, writable |-> snap.writable,
          latest |-> [p \in HeldLabels |-> PCSnapshotLatestOf(snap, p)]]

\* s := x.Snapshot(): the caller keeps the snapshot the last call returned
KeepSnapshot(kind) ==
    /\ ret.op = "Snapshot" /\ HeldKind(ret) = kind
    /\ kind = "gauge" => ~ret.snap.panic
    /\ held' = Put(held, kind, HeldSnap(ret))
    /\ ret' = [op |-> "Keep", of |-> kind]
    /\ UNCHANGED <<now, condVars, pcVars, gmVars, dmVars>>

\* the read methods of the kept snapshot
HeldRead(kind) ==
    /\ Has(held, kind)
    /\ ret' = [op |-> "Snapshot.read", of |-> kind, reads |-> SnapshotReads(kind, held[kind])]
    /\ UNCHANGED <<held, now, condVars, pcVars, gmVars, dmVars>>

\* Snapshot() called on the kept snapshot
HeldSnapshot(kind) ==
    /\ Has(held, kind)
    /\ ret' = [op |-> "Snapshot.Snapshot", of |-> kind,
               snap |-> IF kind = "gauge" THEN GMSnapshotSnapshotOf(held[kind])
                        ELSE PCSnapshotSnapshotOf(held[kind])]
    /\ UNCHANGED <<held, now, condVars, pcVars, gmVars, dmVars>>

HeldTick ==
    /\ Tick({Sec(60)}, MaxTimeHeld)
    /\ UNCHANGED <<held, condVars, pcVars, gmVars, dmVars>>

-----------------------------------------------------------------------------
(* ClockAligner: the boundary schedules of both instruments, side by side *)

MaxSecondsReg == 61
RegStarts == {Sec(3600), Sec(3630) + 1, Sec(4500)}
RegSteps == {Sec(61)}
RegLabels == {"w"}
RegDurations == {0, Sec(30), Sec(90), M1, M5, M15, M30, H1}
RegPeriodMaps == {[p \in RegLabels |-> du] : du \in RegDurations}

\* SetPeriods(p) on the store: setPeriod panics on a zero duration, the
\* deferred Unlock runs; the maps here hold one label
DMSetPeriods(ps) ==
    LET bad == \E p \in DOMAIN ps : ps[p] = 0 IN
    /\ DMLockFree(dmc)
    /\ dm' = IF bad THEN dm ELSE DMSetPeriodsOf(dm, ps, now)
    /\ ret' = [op |-> "DataMap.SetPeriods", ps |-> ps, panic |-> bad]
    /\ UNCHANGED <<held, now, condVars, pcVars, gmVars, dmObs, dmc, registry>>

RegTick ==
    /\ \E st \in RegStarts : now = st
    /\ Tick(RegSteps, Sec(4500) + Sec(MaxSecondsReg))
    /\ UNCHANGED <<held, condVars, pcVars, gmVars, dmVars>>

\* Rolls: a counter built with one label in the constructor's map and a store
\* built with one period in its options; the boundaries are then stepped by
\* LatestPeriodCountRate and by Snapshot's updateHistory
MaxSecondsRoll == 225
RollStarts == {Sec(3600), Sec(3630) + 1}
RollSteps == {Sec(45)}
RollLabels == {"w"}
RollDurations == {Sec(30), Sec(90), M1}

RollTick ==
    /\ Tick(RollSteps, Sec(3600) + Sec(MaxSecondsRoll))
    /\ UNCHANGED <<held, condVars, pcVars, gmVars, dmVars>>


-----------------------------------------------------------------------------
(* Specifications *)

\* The components a specification leaves alone stay as constructed at time 0.
IdleCondInit == cond = [g \in CondKinds |-> NewCond(g, 0, 0)] /\ condc = "idle"
IdlePCInit == pc = NewPeriodCounter(0) /\ pcRoll = EmptyMap /\ pcLog = EmptyMap /\ pcc = "idle"
IdleGMInit == gm = "idle" /\ gmLog = EmptyMap /\ gmc = "idle"
IdleDMInit == dm = "idle" /\ dmObs = "idle" /\ dmc = "idle" /\ registry = EmptyMap

InitCond ==
    /\ now = 0
    /\ \E p \in CondPeriods : cond = [g \in CondKinds |-> NewCond(g, p, 0)]
    /\ condc = CondCIdle
    /\ IdlePCInit /\ IdleGMInit /\ IdleDMInit
    /\ ret = [op |-> "New"] /\ held = EmptyMap

NextCond ==
    \/ CondTick
    \/ \E g \in CondKinds : CondSnapshot(g)
    \/ \E g \in CondKinds : CondWritable(g)
    \/ \E g \in CondKinds : \E v \in CondValues(g) : CondUpdate(g, v)
    \/ \E g \in CondKinds : CondValue(g)

SpecCond == InitCond /\ [][NextCond]_vars

\* The conditional values with the goroutines of Snapshot interleaved
NextCondC ==
    \/ CondCTick
    \/ \E t \in CondThreads : \E g \in CondKinds : CondCBegin(t, g)
    \/ \E t \in CondThreads : CondCGate(t)
    \/ \E t \in CondThreads : CondCStamp(t)

SpecCondC == InitCond /\ [][NextCondC]_vars

InitPC ==
    /\ now = PCStart
    /\ pc = NewPeriodCounter(PCStart)
    /\ pcRoll = EmptyMap /\ pcLog = EmptyMap
    /\ pcc = PCCIdle
    /\ IdleCondInit /\ IdleGMInit /\ IdleDMInit
    /\ ret = [op |-> "New"] /\ held = EmptyMap

NextPC ==
    \/ PCTick
    \/ \E i \in IncAmounts : PCInc(i)
    \/ PCClear
    \/ PCCount
    \/ \E p \in PCQueryLabels : PCLatestPeriodCountRate(p)
    \/ \E p \in PCLabels : \E du \in PCDurations : PCSetPeriod(p, du)
    \/ \E ps \in PCPeriodMaps : PCSetPeriods(ps)
    \/ PCSnapshot
    \/ \E p \in PCQueryLabels : PCSnapshotLatestPeriodCountRate(p)
    \/ PCWritable

SpecPC == InitPC /\ [][NextPC]_vars

\* The counter, built with one label, under concurrent callers
InitPCC ==
    /\ now = PCStart
    /\ \E p \in PCLabels : pc = PCSetPeriodsOf(NewPeriodCounter(PCStart), p :> M1, PCStart)
    /\ pcRoll = EmptyMap /\ pcLog = EmptyMap
    /\ pcc = PCCIdle
    /\ IdleCondInit /\ IdleGMInit /\ IdleDMInit
    /\ ret = [op |-> "New"] /\ held = EmptyMap

NextPCC ==
    \/ PCCTick
    \/ \E t \in PCThreads : \E d \in PCCAmounts : PCCCall(t, d)
    \/ \E t \in PCThreads : PCCLock(t)
    \/ \E t \in PCThreads : PCCRead(t)
    \/ \E t \in PCThreads : PCCWrite(t)
    \/ \E t \in PCThreads : PCCUnlock(t)
    \/ PCCCount
    \/ PCCClear
    \/ \E p \in PCLabels : PCCLatestPeriodCountRate(p)
    \/ PCCSnapshot

SpecPCC == InitPCC /\ [][NextPCC]_vars

\* The counter with increments of either sign
NextTotal ==
    \/ TotalTick
    \/ \E i \in TotalAmounts : TotalInc(i)
    \/ PCClear
    \/ PCCount
    \/ \E p \in PCLabels : PCLatestPeriodCountRate(p)
    \/ \E p \in PCLabels : \E du \in PCDurations : PCSetPeriod(p, du)
    \/ \E ps \in PCPeriodMaps : PCSetPeriods(ps)
    \/ PCSnapshot

SpecTotal == InitPC /\ [][NextTotal]_vars

InitGM ==
    /\ now = 0
    /\ gm = NewGaugeMap /\ gmLog = EmptyMap /\ gmc = "idle"
    /\ IdleCondInit /\ IdlePCInit /\ IdleDMInit
    /\ ret = [op |-> "New"] /\ held = EmptyMap

NextGM ==
    \/ \E u \in IntUpdates : GMUpdateInt64(u[1], u[2])
    \/ \E u \in FloatUpdates : GMUpdateFloat64(u[1], u[2])
    \/ \E e \in FuncEntries : GMSetFuncKey(e[1], e[2])
    \/ GMSnapshot

SpecGM == InitGM /\ [][NextGM]_vars

InitDM ==
    /\ now \in DMStarts
    /\ \E opt \in DMOptions : dm = NewDataMap(opt, now)
    /\ dmObs = [first |-> dm.nextTs, rolled |-> EmptyMap, evalAt |-> EmptyMap,
                lastNonNil |-> now]
    /\ dmc = DMCIdle /\ registry = EmptyMap
    /\ IdleCondInit /\ IdlePCInit /\ IdleGMInit
    /\ ret = [op |-> "New"] /\ held = EmptyMap

NextDM ==
    \/ DMTick
    \/ \E u \in DMIntUpdates : DMUpdateInt64(u[1], u[2])
    \/ \E u \in DMFloatUpdates : DMUpdateFloat64(u[1], u[2])
    \/ \E k \in DMQueryKeys : \E p \in DMQueryPeriods : DMValueHistory(k, p)
    \/ \E k \in DMQueryKeys : DMValueInt64(k)
    \/ DMSnapshot

SpecDM == InitDM /\ [][NextDM]_vars

\* The store with Snapshot in steps, updates and the clock running alongside
NextDMC ==
    \/ DMTick
    \/ \E u \in DMIntUpdates : DMUpdateInt64(u[1], u[2])
    \/ \E u \in DMFloatUpdates : DMUpdateFloat64(u[1], u[2])
    \/ DMCBegin
    \/ DMCReadNow
    \/ \E k \in DMDependentKeys : DMCDependent(k)
    \/ DMCHistory

SpecDMC == InitDM /\ [][NextDMC]_vars

\* A counter and a store without keys, built at the same time
InitReg ==
    /\ now \in RegStarts
    /\ pc = NewPeriodCounter(now) /\ pcRoll = EmptyMap /\ pcLog = EmptyMap /\ pcc = PCCIdle
    /\ dm = NewDataMap([Interval |-> Sec(1), KeyPeriod |-> 0, Periods |-> EmptyMap,
                        KeyTypes |-> EmptyMap, DependentVars |-> EmptyMap], now)
    /\ dmObs = [first |-> EmptyMap, rolled |-> EmptyMap, evalAt |-> EmptyMap,
                lastNonNil |-> now]
    /\ dmc = DMCIdle /\ registry = EmptyMap
    /\ IdleCondInit /\ IdleGMInit
    /\ ret = [op |-> "New"] /\ held = EmptyMap

NextReg ==
    \/ RegTick
    \/ \E p \in RegLabels : \E du \in RegDurations : PCSetPeriod(p, du)
    \/ \E ps \in RegPeriodMaps : PCSetPeriods(ps)
    \/ \E ps \in RegPeriodMaps : DMSetPeriods(ps)

SpecReg == InitReg /\ [][NextReg]_vars

\* A counter and a store, each built with one label, and their rolls
InitRoll ==
    /\ now \in RollStarts
    /\ \E p \in RollLabels : \E du \in RollDurations :
          pc = PCSetPeriodsOf(NewPeriodCounter(now), p :> du, now)
    /\ pcRoll = EmptyMap /\ pcLog = EmptyMap /\ pcc = PCCIdle
    /\ \E p \in RollLabels : \E du \in RollDurations :
          dm = NewDataMap([Interval |-> Sec(1), KeyPeriod |-> 0, Periods |-> p :> du,
                           KeyTypes |-> EmptyMap, DependentVars |-> EmptyMap], now)
    /\ dmObs = [first |-> dm.nextTs, rolled |-> EmptyMap, evalAt |-> EmptyMap,
                lastNonNil |-> now]
    /\ dmc = DMCIdle /\ registry = EmptyMap
    /\ IdleCondInit /\ IdleGMInit
    /\ ret = [op |-> "New"] /\ held = EmptyMap

NextRoll ==
    \/ RollTick
    \/ \E p \in RollLabels : PCLatestPeriodCountRate(p)
    \/ DMSnapshot

SpecRoll == InitRoll /\ [][NextRoll]_vars

\* The earlier counter and its registrations
InitDay ==
    /\ now \in DayStarts
    /\ pc = PC1New /\ pcRoll = EmptyMap /\ pcLog = EmptyMap /\ pcc = "idle"
    /\ IdleCondInit /\ IdleGMInit /\ IdleDMInit
    /\ ret = [op |-> "New"] /\ held = EmptyMap

NextDay ==
    \/ DayTick
    \/ \E p \in DayLabels : \E du \in DayDurations : \E off \in ZoneOffsets :
          PC1SetPeriod(p, du, off)
    \/ \E p \in DayLabels : \E du \in DayDurations : \E off \in ZoneOffsets :
          PC1SetPeriods(p :> du, off)

SpecDay == InitDay /\ [][NextDay]_vars

\* The three instruments that hand out snapshot objects, and the mutators
\* called on those objects
InitSnap ==
    /\ now = 0
    /\ \E p \in CondPeriods : cond = [g \in CondKinds |-> NewCond(g, p, 0)]
    /\ condc = CondCIdle
    /\ pc = NewPeriodCounter(0) /\ pcRoll = EmptyMap /\ pcLog = EmptyMap /\ pcc = PCCIdle
    /\ gm = NewGaugeMap /\ gmLog = EmptyMap /\ gmc = "idle"
    /\ IdleDMInit
    /\ ret = [op |-> "New"] /\ held = EmptyMap

NextSnap ==
    \/ \E g \in CondKinds : \E v \in CondValues(g) : CondUpdate(g, v)
    \/ \E g \in CondKinds : CondSnapshot(g)
    \/ \E m \in CondSnapshotMutators : CondSnapshotMutator(m)
    \/ \E i \in IncAmounts : PCInc(i)
    \/ PCSnapshot
    \/ \E m \in PCSnapshotMutators : PCSnapshotMutator(m)
    \/ \E u \in {x \in IntUpdates : x[1] = "i"} : GMUpdateInt64(u[1], u[2])
    \/ GMSnapshot
    \/ \E m \in GMSnapshotMutators : GMSnapshotMutator(m)

SpecSnap == InitSnap /\ [][NextSnap]_vars

\* A gauge and a store on which functions are registered and evaluated
InitFn ==
    /\ now = Sec(10)
    /\ gm = NewGaugeMap /\ gmLog = EmptyMap /\ gmc = "idle"
    /\ dm = NewDataMap(FnOptions, now)
    /\ dmObs = [first |-> dm.nextTs, rolled |-> EmptyMap, evalAt |-> EmptyMap,
                lastNonNil |-> now]
    /\ dmc = DMCIdle /\ registry = EmptyMap
    /\ IdleCondInit /\ IdlePCInit
    /\ ret = [op |-> "New"] /\ held = EmptyMap

NextFn ==
    \/ FnTick
    \/ \E u \in {<<"i", 100>>, <<"j", 400>>} : GMUpdateInt64(u[1], u[2])
    \/ \E fn \in GMFnInputs : GMSetFuncKey("fn", fn)
    \/ GMSnapshot
    \/ DMUpdateInt64("a", 1)
    \/ \E fn \in DMFnInputs : \E typ \in {condIntType, condFloatType} :
          DMSetDependentVar("dep", fn, typ, Sec(1))
    \/ DMSnapshot

SpecFn == InitFn /\ [][NextFn]_vars

\* A store with typed keys and a dependent variable, its Snapshots and the
\* registry they are handed
InitMeter ==
    /\ now = Sec(10)
    /\ dm = NewDataMap(MeterOptions, now)
    /\ dmObs = [first |-> dm.nextTs, rolled |-> EmptyMap, evalAt |-> EmptyMap,
                lastNonNil |-> now]
    /\ dmc = DMCIdle /\ registry = EmptyMap
    /\ IdleCondInit /\ IdlePCInit /\ IdleGMInit
    /\ ret = [op |-> "New"] /\ held = EmptyMap

NextMeter ==
    \/ MeterTick
    \/ \E u \in MeterIntUpdates : DMUpdateInt64(u[1], u[2])
    \/ \E u \in MeterFloatUpdates : DMUpdateFloat64(u[1], u[2])
    \/ DMSnapshot

SpecMeter == InitMeter /\ [][NextMeter]_vars

\* A counter built with two labels, its increments and its reports, with no
\* Clear and no change of the labels
InitDelta ==
    /\ now = PCStart
    /\ pc = PCSetPeriodsOf(NewPeriodCounter(PCStart), DeltaPeriods, PCStart)
    /\ pcRoll = EmptyMap /\ pcLog = PCLogNew(pc)
    /\ pcc = PCCIdle
    /\ IdleCondInit /\ IdleGMInit /\ IdleDMInit
    /\ ret = [op |-> "New"] /\ held = EmptyMap

NextDelta ==
    \/ DeltaTick
    \/ \E i \in IncAmounts : PCInc(i)
    \/ \E p \in DOMAIN DeltaPeriods : PCLatestPeriodCountRate(p)
    \/ PCSnapshot

SpecDelta == InitDelta /\ [][NextDelta]_vars

\* A gauge and a counter, the snapshots a caller keeps of them, and the calls
\* that go on on the live instruments
InitHeld ==
    /\ now = HeldStart
    /\ pc = NewPeriodCounter(now) /\ pcRoll = EmptyMap /\ pcLog = EmptyMap /\ pcc = PCCIdle
    /\ gm = NewGaugeMap /\ gmLog = EmptyMap /\ gmc = "idle"
    /\ IdleCondInit /\ IdleDMInit
    /\ ret = [op |-> "New"] /\ held = EmptyMap

NextHeld ==
    \/ HeldTick
    \/ \E v \in {100, 300} : GMUpdateInt64("i", v)
    \/ GMUpdateFloat64("f", FloatDiv(1, 2))
    \/ GMSetFuncKey("delta", IntFn("delta"))
    \/ GMSnapshot
    \/ PCInc(120)
    \/ PCClear
    \/ \E du \in {0, M1} : PCSetPeriod("1m", du)
    \/ PCSnapshot
    \/ \E k \in HeldKinds : KeepSnapshot(k)
    \/ \E k \in HeldKinds : HeldRead(k)
    \/ \E k \in HeldKinds : HeldSnapshot(k)

SpecHeld == InitHeld /\ [][NextHeld]_vars

\* The store's lock, step by step: two goroutines making Snapshot, UpdateInt64,
\* SetFuncKey and ValueInt64 calls
GMCIntCalls ==
    {<<"Snapshot", "", 0>>, <<"UpdateInt64", "i", 1>>, <<"UpdateInt64", "i", 2>>,
     <<"ValueInt64", "i", 0>>, <<"ValueInt64", "2i", 0>>}
GMCFuncEntries == {<<"2i", IntFn("twice")>>, <<"delta", IntFn("delta")>>}

InitGMC ==
    /\ now = 0
    /\ gm = NewGaugeMap /\ gmLog = EmptyMap /\ gmc = GMCNew
    /\ IdleCondInit /\ IdlePCInit /\ IdleDMInit
    /\ ret = [op |-> "New"] /\ held = EmptyMap

NextGMC ==
    \/ \E t \in GMCGoroutines : \E c \in GMCIntCalls : GMCBegin(t, c[1], c[2], c[3])
    \/ \E t \in GMCGoroutines : \E e \in GMCFuncEntries : GMCBegin(t, "SetFuncKey", e[1], e[2])
    \/ \E t \in GMCGoroutines : GMCLock(t)
    \/ \E t \in GMCGoroutines : GMCWrite(t)
    \/ \E t \in GMCGoroutines : GMCSnapStep(t)
    \/ \E t \in GMCGoroutines : GMCRLock(t)
    \/ \E t \in GMCGoroutines : GMCRead(t)

SpecGMC == InitGMC /\ [][NextGMC]_vars

\* A store with two periods, two keys and two dependent variables, and the
\* calls that list them
InitEnum ==
    /\ now = Sec(10)
    /\ dm = NewDataMap(EnumOptions, now)
    /\ dmObs = [first |-> dm.nextTs, rolled |-> EmptyMap, evalAt |-> EmptyMap,
                lastNonNil |-> now]
    /\ dmc = DMCIdle /\ registry = EmptyMap
    /\ IdleCondInit /\ IdlePCInit /\ IdleGMInit
    /\ ret = [op |-> "New"] /\ held = EmptyMap

NextEnum ==
    \/ EnumTick
    \/ \E u \in EnumIntUpdates : DMUpdateInt64(u[1], u[2])
    \/ DMSnapshot
    \/ \E op \in DMEnumOps : DMEnumeration(op)

SpecEnum == InitEnum /\ [][NextEnum]_vars

\* A counter with one window, found by its exporter loop after a stall; the
\* clock keeps advancing and the loop keeps calling
InitCatch ==
    /\ \E du \in CatchDurations :
          pc = PCSetPeriodsOf(NewPeriodCounter(CatchStart), CatchLabel :> du, CatchStart)
    /\ \E st \in CatchStalls : now = CatchStart + st
    /\ pcRoll = EmptyMap /\ pcLog = EmptyMap /\ pcc = PCCIdle
    /\ IdleCondInit /\ IdleGMInit /\ IdleDMInit
    /\ ret = [op |-> "New"] /\ held = EmptyMap

NextCatch ==
    \/ CatchTick
    \/ CatchCall

SpecCatch == InitCatch /\ [][NextCatch]_vars /\ WF_vars(CatchTick) /\ WF_vars(CatchCall)

-----------------------------------------------------------------------------
(* Claims *)

\* The first boundary of the label's schedule (nb, nb + secs, nb + 2 secs, ...)
\* that lies after the clock time of the report r.
NextAlignedAfter(r) == r.nb + ((r.at - r.nb) \div r.secs + 1) * r.secs

C3_BoundaryRollover ==
    [][\A p \in PCLabels :
        ( /\ ret'.op = "LatestPeriodCountRate" /\ ret'.period = p
          /\ Has(pc.periods, p)
          /\ Unix(now) >= pc.nextTs[p] )
        => LET delta == pc.count - GetInt(pc.latestCounts, p)
               secs == pc.periods[p] \div TicksPerSecond
           IN  /\ ret'.res.count = delta
               /\ ret'.res.rate.d > 0
               /\ ret'.res.rate.n * secs = delta * ret'.res.rate.d
               /\ Has(pc'.latestCounts, p) /\ pc'.latestCounts[p] = pc.count
               /\ pc'.nextTs[p] = pc.nextTs[p] + secs
               /\ pc'.count = pc.count /\ pc'.periods = pc.periods]_vars

\* C3 witness: Inc(30), a report, Inc(120) and a report one window later:
\* (120, 2.0) with the baseline reset to the running total.
C3_Witness ==
    /\ ret.op = "LatestPeriodCountRate" /\ ret.period = "1m"
    /\ ret.res = [count |-> 120, rate |-> [n |-> 2, d |-> 1]]
    /\ pc.count = 150 /\ GetInt(pc.latestCounts, "1m") = 150

\* C10: Writable() is true iff now - lastSnap >= period, and a Snapshot() at the
\* same clock value carries that same flag and the current value, writable or not.
C10_WritableGate ==
    [][\A g \in CondKinds :
        LET elapsed == now - cond[g].lastSnap IN
        /\ (ret'.op = "Writable" /\ ret'.kind = g)
              => (ret'.writable <=> elapsed >= cond[g].period)
        /\ (ret'.op = "Snapshot" /\ ret'.kind = g)
              => /\ ret'.writable <=> elapsed >= cond[g].period
                 /\ ret'.value = cond[g].value]_vars

\* C10 witness: a Snapshot taken exactly one period after the last accepted one
\* is writable and carries the updated value.
C10_Witness ==
    /\ ret.op = "Snapshot" /\ ret.kind = "int" /\ ret.writable
    /\ ret.value = 2 /\ cond["int"].value = 2
    /\ cond["int"].lastSnap = now /\ now = 2 * cond["int"].period

\* C7: every Snapshot of a gauge map holding sum = i+j, ratio = i/j and
\* delta = i - previous(i) returns each function evaluated on the live values,
\* and delta is the value last written to i minus the value i held just before
\* that write (0 when there was none).
C7_FunctionsOnLiveValues ==
    (ret.op = "Snapshot" /\ ~ret.snap.panic) =>
        /\ Has(gm.value, "i+j") =>
              /\ Has(ret.snap.i, "i+j")
              /\ ret.snap.i["i+j"] = gm.value["i"].v + gm.value["j"].v
        /\ Has(gm.value, "i/j") =>
              /\ Has(ret.snap.f, "i/j")
              /\ ret.snap.f["i/j"].d > 0
              /\ ret.snap.f["i/j"].n * gm.value["j"].v
                    = gm.value["i"].v * ret.snap.f["i/j"].d
        /\ Has(gm.value, "delta") =>
              /\ Has(ret.snap.i, "delta") /\ Has(gmLog, "i")
              /\ ret.snap.i["delta"] = gmLog["i"].last.v - gmLog["i"].before.v

\* C7 witness: the Snapshot after the third pair of updates of the reference
\* sequence: sum 200, ratio 1/3, delta -250.
C7_Witness ==
    /\ ret.op = "Snapshot" /\ ~ret.snap.panic
    /\ Has(ret.snap.i, "i+j") /\ ret.snap.i["i+j"] = 200
    /\ Has(ret.snap.i, "delta") /\ ret.snap.i["delta"] = -250
    /\ Has(ret.snap.f, "i/j") /\ ret.snap.f["i/j"] = [n |-> 1, d |-> 3]

\* C8: UpdateInt64 / UpdateFloat64(key, v) sets previous[key] to the value key
\* held just before the call (the zero of the type when key was unset) and
\* value[key] to v, and leaves every other key alone; previous[key] is always
\* the second-most-recent value written to key.
C8_UpdateKeepsOneStepBack ==
    /\ [][(ret'.op \in {"UpdateInt64", "UpdateFloat64"}) =>
            LET k == ret'.key
                zero == IF ret'.op = "UpdateInt64" THEN [t |-> "int64", v |-> 0]
                        ELSE [t |-> "float64", v |-> [n |-> 0, d |-> 1]]
            IN  /\ Has(gm'.value, k) /\ gm'.value[k] = ret'.val
                /\ Has(gm'.valuePrev, k)
                /\ gm'.valuePrev[k] = IF Has(gm.value, k) THEN gm.value[k] ELSE zero
                /\ DOMAIN gm'.value = DOMAIN gm.value \cup {k}
                /\ DOMAIN gm'.valuePrev = DOMAIN gm.valuePrev \cup {k}
                /\ \A x \in DOMAIN gm.value \ {k} : gm'.value[x] = gm.value[x]
                /\ \A x \in DOMAIN gm.valuePrev \ {k} :
                       gm'.valuePrev[x] = gm.valuePrev[x]]_vars
    /\ [](\A k \in DOMAIN gmLog :
             /\ Has(gm.valuePrev, k) /\ gm.valuePrev[k] = gmLog[k].before
             /\ Has(gm.value, k) /\ gm.value[k] = gmLog[k].last)

\* C9: Snapshot returns a split map whose key set is that of the live value map:
\* an int64 scalar in the int64 map only, a float64 scalar in the float64 map
\* only, a function entry invoked exactly once with its result in the map of its
\* return type.
C9_SnapshotSplitByType ==
    (ret.op = "Snapshot" /\ ~ret.snap.panic) =>
        LET sn == ret.snap IN
        /\ DOMAIN sn.i \cup DOMAIN sn.f = DOMAIN gm.value
        /\ DOMAIN sn.i \cap DOMAIN sn.f = {}
        /\ \A k \in DOMAIN gm.value :
              LET e == gm.value[k] IN
              /\ e.t = "int64" => Has(sn.i, k) /\ sn.i[k] = e.v /\ ~Has(sn.calls, k)
              /\ e.t = "float64" => Has(sn.f, k) /\ sn.f[k] = e.v /\ ~Has(sn.calls, k)
              /\ e.t = "IntValueFunc" =>
                    /\ Has(sn.i, k) /\ Has(sn.calls, k) /\ sn.calls[k] = 1
                    /\ sn.i[k] = GMCall(e.fn, gm).val.v
              /\ e.t = "FloatValueFunc" =>
                    /\ Has(sn.f, k) /\ Has(sn.calls, k) /\ sn.calls[k] = 1
                    /\ sn.f[k] = GMCall(e.fn, gm).val.v

\* C9 witness: a Snapshot of a map holding int64 and float64 scalars and an
\* int64- and a float64-returning function.
C9_Witness ==
    /\ ret.op = "Snapshot" /\ ~ret.snap.panic
    /\ {"i", "j", "i+j", "i/j"} \subseteq DOMAIN gm.value
    /\ Has(gm.value, "f") /\ gm.value["f"].t = "float64"
    /\ DOMAIN ret.snap.f = {"f", "i/j"}

\* C1: a Snapshot of the store returns nil iff less than minInterval has elapsed
\* since the previous non-nil Snapshot (since construction when there was
\* none); in particular it returns non-nil when exactly minInterval has elapsed.
\* Stated for the calls made while a typed key holds a value, whose list of
\* meters is not empty when the gate lets them through.
C1_NilIffWithinInterval ==
    [][(/\ ret'.op = "Snapshot" /\ ~ret'.panic
        /\ \E k \in DOMAIN dm.keyTypes : Has(dm.values, k))
        => (ret'.isNil <=> now - dmObs.lastNonNil < dm.minInterval)]_vars

\* C4 as stated: found=false before the period's first boundary, found=true
\* with the recorded value once the clock is past that boundary.
C4_FoundOnceBoundaryElapsed ==
    (ret.op = "ValueHistory" /\ Has(dm.periods, ret.period))
    => /\ Unix(now) < dmObs.first[ret.period] => ~ret.res.found
       /\ Unix(now) > dmObs.first[ret.period] => ret.res.found

\* C4: ValueHistory(key, period) returns found=true iff the period's bucket has
\* been recorded by an accepted Snapshot, which never happens before the
\* period's first aligned boundary; the value is the one the key held at the
\* latest recording (nil when it held none), whatever was stored since.
C4_FoundOnceRecorded ==
    ret.op = "ValueHistory"
    => LET p == ret.period
           k == ret.key
           r == ret.res
       IN  /\ r.found <=> Has(dmObs.rolled, p)
           /\ Has(dm.periods, p) /\ Unix(now) < dmObs.first[p] => ~r.found
           /\ r.found
                => IF Has(dmObs.rolled[p], k)
                   THEN ~r.isNil /\ r.val = dmObs.rolled[p][k]
                   ELSE r.isNil

\* C4 witness: a recorded value is returned after the key was given another one.
C4_Witness ==
    /\ ret.op = "ValueHistory" /\ ret.period = "s2" /\ ret.key = "a"
    /\ ret.res.found /\ ~ret.res.isNil
    /\ Has(dm.values, "a") /\ dm.values["a"] # ret.res.val

C6_SnapshotSeesOneView ==
    /\ [](dmc.lock = "held"
            => /\ dm.values = dmc.view.values
               /\ dm.valuesHistory = dmc.view.valuesHistory)
    /\ [][(ret'.op = "Snapshot.dependent" /\ ret'.invoked)
            => LET r == DMCall(dm.dependentVars[ret'.key].Func,
                               [dm EXCEPT !.values = dmc.view.values,
                                          !.valuesHistory = dmc.view.valuesHistory])
               IN  ~r.panic /\ dmc'.meters[ret'.key].val = r.val]_vars
    /\ [][(dmc.lock = "held" /\ ret'.op = "Snapshot" /\ ~ret'.panic)
            => /\ dm'.values = dmc.view.values
               /\ \A p \in DOMAIN dm.nextTs :
                    IF dm'.nextTs[p] # dm.nextTs[p]
                    THEN dm'.valuesHistory[p] = dmc.view.values
                    ELSE Has(dm'.valuesHistory, p) = Has(dmc.view.valuesHistory, p)
                         /\ (Has(dm'.valuesHistory, p)
                               => dm'.valuesHistory[p] = dmc.view.valuesHistory[p])]_vars

\* C6 witness: a Snapshot that held the lock while the clock moved on has
\* invoked a dependent function and rolled the bucket, the key holding a value.
C6_Witness ==
    /\ ret.op = "Snapshot" /\ ret.accepted /\ ~ret.panic /\ ret.invoked # {}
    /\ Has(dmObs.rolled, "s2") /\ Has(dmObs.rolled["s2"], "a")
    /\ dm.latestSnapshot < now
    /\ dm.nextTs["s2"] > dmObs.first["s2"] + DurSeconds(dm.periods["s2"])

\* C11: lastSnap of a conditional value changes only in a Snapshot that returns
\* writable=true, and becomes the current time; Update, Value, Writable and a
\* Snapshot returning writable=false leave it alone, so an Update never changes
\* what Writable() answers.
C11_OnlyWritableSnapshotStamps ==
    [][\A g \in CondKinds :
        /\ cond'[g].lastSnap # cond[g].lastSnap
              => /\ ret'.op = "Snapshot" /\ ret'.kind = g /\ ret'.writable
                 /\ cond'[g].lastSnap = now
        /\ (ret'.op = "Snapshot" /\ ret'.kind = g /\ ret'.writable)
              => cond'[g].lastSnap = now
        /\ cond'[g].period = cond[g].period
        /\ ret'.op = "Update"
              => CondWritableOf(cond'[g], now') = CondWritableOf(cond[g], now)]_vars

\* C11 witness: an Update between an accepted Snapshot and the end of its
\* period; the value is new, the stamp is the Snapshot's.
C11_Witness ==
    /\ ret.op = "Update" /\ ret.kind = "float"
    /\ cond["float"].value = ret.value
    /\ cond["float"].lastSnap > 0
    /\ now > cond["float"].lastSnap
    /\ ~CondWritableOf(cond["float"], now)

\* C12: with Snapshot called from several goroutines, any two results carrying
\* writable=true were taken at least period apart.
C12_WritableSnapshotsPeriodApart ==
    \A g \in CondKinds :
        \A i, j \in 1..Len(condc.taken[g]) :
            i < j => Abs(condc.taken[g][j] - condc.taken[g][i]) >= cond[g].period

\* C13: LatestPeriodCountRate(label) for a label that is not registered returns
\* the sentinel (-1, -1.0) and changes no state, on the live counter and on
\* every snapshot obtained from it, the gated ones included.
C13_UnknownLabelSentinel ==
    [][/\ (ret'.op = "LatestPeriodCountRate" /\ ~Has(pc.periods, ret'.period))
            => ret'.res = Sentinel /\ pc' = pc
       /\ (ret'.op = "Snapshot.LatestPeriodCountRate" /\ ~Has(pc.periods, ret'.period))
            => ret'.res = Sentinel /\ pc' = pc]_vars

\* C14: a Snapshot of the counter made less than minPeriod after the last
\* accepted one returns writable=false with no window values and changes
\* nothing; one made at or after minPeriod returns writable=true with the
\* count and one entry per registered label, and sets lastSnap to now.
C14_SnapshotGate ==
    [][ret'.op = "Snapshot" =>
        IF now - pc.lastSnap < pc.minPeriod
        THEN /\ ~ret'.snap.writable
             /\ ret'.snap.periodCounts = EmptyMap
             /\ pc' = pc
        ELSE /\ ret'.snap.writable
             /\ ret'.snap.count = pc.count
             /\ DOMAIN ret'.snap.periodCounts = DOMAIN pc.periods
             /\ pc'.lastSnap = now
             /\ pc'.count = pc.count]_vars

\* C14 witness: a gated Snapshot of a counter with a registered label, a
\* non-zero count and an accepted Snapshot behind it.
C14_Witness ==
    /\ ret.op = "Snapshot" /\ ~ret.snap.writable
    /\ Has(pc.periods, "1m") /\ pc.count > 0
    /\ pc.lastSnap > PCStart /\ now > pc.lastSnap

\* What re-registration must preserve for label p of counter c: its duration,
\* its next boundary, its baseline and the counter's snapshot-gate interval.
PCLabelView(c, p) ==
    <<c.periods[p], c.nextTs[p], GetInt(c.latestCounts, p), c.minPeriod>>

DMLabelView(d, p) == <<d.periods[p], d.nextTs[p]>>

\* C15: SetPeriod or SetPeriods with a label that is already registered and a
\* non-zero duration changes nothing: the label's duration, next boundary and
\* baseline and the counter's snapshot-gate interval stay as they were, on the
\* counter and on the store.
C15_ReRegisterIsNoOp ==
    [][/\ (ret'.op = "SetPeriod" /\ ret'.du # 0 /\ Has(pc.periods, ret'.period))
            => PCLabelView(pc', ret'.period) = PCLabelView(pc, ret'.period)
       /\ ret'.op = "SetPeriods"
            => \A p \in DOMAIN ret'.ps :
                   (ret'.ps[p] # 0 /\ Has(pc.periods, p))
                       => PCLabelView(pc', p) = PCLabelView(pc, p)
       /\ ret'.op = "DataMap.SetPeriods"
            => \A p \in DOMAIN ret'.ps :
                   (ret'.ps[p] # 0 /\ Has(dm.periods, p))
                       => DMLabelView(dm', p) = DMLabelView(dm, p)]_vars

\* The modulus a duration of at least one minute, other than a day, is to be
\* aligned to: its own second-count for 5m, 15m, 30m and 1h, else 60 seconds.
NaturalMod(du) == IF du \in {M5, M15, M30, H1} THEN DurSeconds(du) ELSE 60

\* x is the smallest multiple of m strictly greater than t
SmallestMultipleAfter(x, m, t) == x % m = 0 /\ x > t /\ x - m <= t

\* C20: a call that registers a new label with a duration of at least one
\* minute at clock time t sets the label's next boundary to the smallest
\* multiple of the modulus strictly greater than t: the duration's own
\* second-count for 5m, 15m, 30m and 1h, 60 seconds otherwise; on the counter
\* and on the store.
C20_RegistrationAligned ==
    [][/\ (ret'.op = "SetPeriod" /\ ret'.du >= M1 /\ ~Has(pc.periods, ret'.period))
            => SmallestMultipleAfter(pc'.nextTs[ret'.period], NaturalMod(ret'.du),
                                     Unix(now))
       /\ ret'.op = "SetPeriods"
            => \A p \in DOMAIN ret'.ps :
                   (ret'.ps[p] >= M1 /\ ~Has(pc.periods, p))
                       => SmallestMultipleAfter(pc'.nextTs[p], NaturalMod(ret'.ps[p]),
                                                Unix(now))
       /\ (ret'.op = "DataMap.SetPeriods" /\ ~ret'.panic)
            => \A p \in DOMAIN ret'.ps :
                   (ret'.ps[p] >= M1 /\ ~Has(dm.periods, p))
                       => SmallestMultipleAfter(dm'.nextTs[p], NaturalMod(ret'.ps[p]),
                                                Unix(now))]_vars

\* a 15-minute label registered on the counter and on the store at a clock
\* time that is itself a multiple of 900 seconds
C20_Witness ==
    /\ ret.op = "DataMap.SetPeriods" /\ ~ret.panic
    /\ now = Sec(Unix(now)) /\ Unix(now) % 900 = 0
    /\ \E p \in RegLabels :
          /\ ret.ps[p] = M15
          /\ Has(dm.periods, p) /\ dm.periods[p] = M15
          /\ dm.nextTs[p] = Unix(now) + 900
          /\ Has(pc.periods, p) /\ pc.periods[p] = M15
          /\ pc.nextTs[p] = Unix(now) + 900

\* C19: in every reachable state, on the counter and on the store, the next
\* boundary of every registered label with a non-day duration is a multiple
\* of the label's alignment modulus, after any number of rolls and for every
\* registered duration.
C19_BoundaryAlwaysAligned ==
    /\ \A p \in DOMAIN pc.periods :
          pc.periods[p] # D1 => pc.nextTs[p] % PCMod(pc.periods[p]) = 0
    /\ \A p \in DOMAIN dm.periods :
          dm.periods[p] # D1 => dm.nextTs[p] % DMMod(dm.periods[p]) = 0

\* C16: Clear sets the running total to 0 and discards every baseline, and
\* leaves the registered labels, their durations and their next boundaries
\* unchanged; the first delta a label reports after a Clear, from the counter
\* or in a snapshot, equals the sum of the Inc arguments applied since that
\* Clear.
C16_Clear ==
    [][/\ ret'.op = "Clear"
            => /\ pc'.count = 0
               /\ pc'.latestCounts = EmptyMap
               /\ pc'.periods = pc.periods
               /\ pc'.nextTs = pc.nextTs
       /\ (pcc.cleared /\ ret'.op = "LatestPeriodCountRate" /\ ret'.res # Sentinel
              /\ ~Has(pcc.reported, ret'.period))
            => ret'.res.count = pcc.sum
       /\ (pcc.cleared /\ ret'.op = "Snapshot")
            => \A p \in DOMAIN ret'.snap.periodCounts :
                   (ret'.snap.periodCounts[p] # Sentinel /\ ~Has(pcc.reported, p))
                       => ret'.snap.periodCounts[p].count = pcc.sum]_vars

\* a label that had a non-zero baseline reports its first delta after a Clear,
\* Inc calls having been made since
C16_Witness ==
    /\ pcc.cleared /\ pcc.sum > 0
    /\ ret.op = "LatestPeriodCountRate" /\ ret.res # Sentinel
    /\ Has(pcc.reported, ret.period) /\ pcc.reported[ret.period] = 1
    /\ ret.res.count = pcc.sum
    /\ pc.count = pcc.sum

\* C18: over any sequence of Inc, Clear, SetPeriod, SetPeriods,
\* LatestPeriodCountRate and Snapshot calls the running total never decreases,
\* and no operation other than Inc changes it.
C18_TotalMonotonicIncOnly ==
    [][/\ pc'.count >= pc.count
       /\ pc'.count # pc.count => ret'.op = "Inc"]_vars

\* C18, amended: only Inc and Clear change the running total; Inc(i) adds i to
\* it, whatever the sign of i, and Clear sets it to 0; Count returns it.
C18_TotalChangedByIncAndClear ==
    [][/\ pc'.count # pc.count => ret'.op \in {"Inc", "Clear"}
       /\ ret'.op = "Inc" => pc'.count = pc.count + ret'.i
       /\ ret'.op = "Clear" => pc'.count = 0
       /\ ret'.op = "Count" => ret'.count = pc.count /\ pc'.count = pc.count
       /\ (ret'.op = "Inc" /\ ret'.i >= 0) => pc'.count >= pc.count]_vars

\* Count read after a Clear and a negative increment: the total is below zero
\* and equals the sum of the increments since the Clear
C18_Witness ==
    /\ ret.op = "Count" /\ ret.count < 0
    /\ pcc.cleared /\ ret.count = pcc.sum
    /\ Has(pc.periods, "1m") /\ Has(pc.latestCounts, "1m")

\* C17: under any interleaving of concurrent Inc calls with Count,
\* LatestPeriodCountRate and Snapshot, no increment is lost: whenever every Inc
\* call has returned, the running total equals the sum of the arguments
\* applied since creation or the last Clear, wrapped to the width of the total.
C17_NoLostIncrement ==
    (\A t \in PCThreads : pcc.th[t].pc = "idle") => pc.count = Wrap(pcc.sum)

\* every call has returned, two of them overlapped, and the sum has wrapped
C17_Witness ==
    /\ \A t \in PCThreads : pcc.th[t].pc = "idle"
    /\ pcc.calls = MaxIncCalls /\ pcc.overlap
    /\ ret.op = "Inc"
    /\ pcc.sum # Wrap(pcc.sum)
    /\ pc.count = Wrap(pcc.sum)

\* C21: a call that registers a new label with a duration shorter than one
\* minute at clock time t sets the label's next boundary to t + 1, on the
\* store and on the counter.
C21_SubMinuteNextSecond ==
    [][/\ (ret'.op = "SetPeriod" /\ ret'.du > 0 /\ ret'.du < M1
              /\ ~Has(pc.periods, ret'.period))
            => pc'.nextTs[ret'.period] = Unix(now) + 1
       /\ ret'.op = "SetPeriods"
            => \A p \in DOMAIN ret'.ps :
                   (ret'.ps[p] > 0 /\ ret'.ps[p] < M1 /\ ~Has(pc.periods, p))
                       => pc'.nextTs[p] = Unix(now) + 1
       /\ (ret'.op = "DataMap.SetPeriods" /\ ~ret'.panic)
            => \A p \in DOMAIN ret'.ps :
                   (ret'.ps[p] < M1 /\ ~Has(dm.periods, p))
                       => dm'.nextTs[p] = Unix(now) + 1]_vars

\* Local midnight of the calendar day following t, in a zone off seconds east
\* of UTC
LocalMidnightAfter(t, off) == ((t + off) \div 86400 + 1) * 86400 - off

\* C22: registering a 1-day period at time t sets the next boundary to local
\* midnight of the calendar day following t; stated here for the earlier
\* StandardPeriodCounter, whose setPeriod is in the source in full.
C22_DayIsLocalMidnight ==
    [][/\ (ret'.op = "v1.SetPeriod" /\ ret'.du = D1 /\ ~Has(pc.periods, ret'.period))
            => pc'.nextTs[ret'.period] = LocalMidnightAfter(Unix(now), ret'.off)
       /\ ret'.op = "v1.SetPeriods"
            => \A p \in DOMAIN ret'.ps :
                   (ret'.ps[p] = D1 /\ ~Has(pc.periods, p))
                       => pc'.nextTs[p] = LocalMidnightAfter(Unix(now), ret'.off)]_vars

\* C23: a Snapshot of the store that passes the interval gate returns a
\* non-nil list, also when the list is empty; nil is returned only by a gated
\* call.
C23_AcceptedIsNonNil ==
    [][(ret'.op = "Snapshot" /\ ~ret'.panic) => (ret'.isNil <=> ~ret'.accepted)]_vars

\* C24: in an accepted Snapshot of the store that returns, every period whose
\* next boundary is <= the current time has its boundary advanced by exactly
\* one duration, however many boundaries were missed, and its history bucket
\* rewritten from values; every period whose boundary lies in the future keeps
\* its boundary and its bucket.
C24_DueBucketsStepOnce ==
    [][(ret'.op = "Snapshot" /\ ret'.accepted /\ ~ret'.panic)
        => \A p \in DOMAIN dm.periods :
             IF Unix(now) >= dm.nextTs[p]
             THEN /\ dm'.nextTs[p] = dm.nextTs[p] + DurSeconds(dm.periods[p])
                  /\ Has(dm'.valuesHistory, p)
                  /\ dm'.valuesHistory[p] = dm'.values
             ELSE /\ dm'.nextTs[p] = dm.nextTs[p]
                  /\ Has(dm'.valuesHistory, p) = Has(dm.valuesHistory, p)
                  /\ Has(dm.valuesHistory, p)
                        => dm'.valuesHistory[p] = dm.valuesHistory[p]]_vars

\* after a stall of more than one window the Snapshot has rolled the bucket
\* once and the boundary is still not ahead of the clock
C24_Witness ==
    /\ ret.op = "Snapshot" /\ ret.accepted /\ ~ret.panic
    /\ \E p \in DOMAIN dm.periods :
          /\ dm.nextTs[p] <= Unix(now)
          /\ Has(dm.valuesHistory, p)
          /\ Has(dmObs.rolled, p)
          /\ dm.valuesHistory[p] = dm.values
          /\ DOMAIN dm.values # {}

\* C25: the history bucket of a period is an exact copy of what values held
\* when the period last rolled (same key set, same value per key), right after
\* the roll and under any later UpdateInt64 / UpdateFloat64 until the period
\* rolls again; a period that has not rolled has no bucket.
C25_BucketIsCopyAtRoll ==
    /\ DOMAIN dm.valuesHistory = DOMAIN dmObs.rolled
    /\ \A p \in DOMAIN dm.valuesHistory : dm.valuesHistory[p] = dmObs.rolled[p]

\* a bucket recorded with a value, values having been updated since: the key
\* differs from its recorded value and a further key has appeared
C25_Witness ==
    /\ ret.op = "UpdateInt64"
    /\ \E p \in DOMAIN dm.valuesHistory :
          /\ dm.valuesHistory[p] = dmObs.rolled[p]
          /\ DOMAIN dm.valuesHistory[p] # {}
          /\ DOMAIN dm.values # DOMAIN dm.valuesHistory[p]
          /\ \E k \in DOMAIN dm.valuesHistory[p] : dm.values[k] # dm.valuesHistory[p][k]

\* C26: the store never turns missing data into a default: ValueHistory(key,
\* period) returns found=true only when the recorded bucket of the period
\* contains key, and ValueInt64 of a key that has no value does not return 0.
C26_NoDefaultForMissing ==
    /\ (ret.op = "ValueHistory" /\ ret.res.found)
          => /\ Has(dm.valuesHistory, ret.period)
             /\ Has(dm.valuesHistory[ret.period], ret.key)
             /\ ~ret.res.isNil
    /\ (ret.op = "ValueInt64" /\ ~Has(dm.values, ret.key))
          => (ret.res.panic \/ ret.res.v # 0)

\* C27: every mutator called on a snapshot object (Clear, Inc, SetPeriod and
\* SetPeriods on a PeriodCounterSnapshot, UpdateInt64, UpdateFloat64 and
\* SetFuncKey on a GaugeMapSnapshot, Update on a CondIntSnapshot or
\* CondFloatSnapshot) panics, and the snapshot's contents, like the live
\* instruments, are unchanged by the attempt.
C27_SnapshotMutatorsPanic ==
    [][ret'.op = "Snapshot.mutator"
        => /\ ret'.panic
           /\ ret'.snap = HeldSnap(ret)
           /\ cond' = cond /\ pc' = pc /\ gm' = gm]_vars

\* UpdateInt64 has panicked on a GaugeMapSnapshot that holds a value
C27_Witness ==
    /\ ret.op = "Snapshot.mutator" /\ ret.of = "gauge" /\ ret.m = "UpdateInt64"
    /\ ret.panic
    /\ DOMAIN ret.snap.i # {}

\* The function types the two registration calls accept
AcceptedFuncTypes ==
    {"IntValueFunc", "FloatValueFunc", "func(DataMap) int64", "func(DataMap) float64",
     "func(GaugeMap) int64", "func(GaugeMap) float64"}

\* C28: SetDependentVar and SetFuncKey accept a function only when it is
\* int64-returning or float64-returning over the store; with any other value
\* the call panics and leaves the dependent variables / the entries as they
\* were, so every registered function is of one of the two kinds.
C28_OnlyTwoFuncKinds ==
    [][/\ ret'.op = "SetDependentVar"
            => /\ ret'.panic <=> ret'.fn.t \notin AcceptedFuncTypes
               /\ ret'.panic => dm' = dm
               /\ ~ret'.panic => Has(dm'.dependentVars, ret'.key)
       /\ ret'.op = "SetFuncKey"
            => /\ ret'.panic <=> ret'.fn.t \notin AcceptedFuncTypes
               /\ ret'.panic => gm' = gm
               /\ ~ret'.panic => Has(gm'.value, ret'.key)
       /\ \A k \in DOMAIN dm'.dependentVars :
              dm'.dependentVars[k].Func.t \in {"IntValueFunc", "FloatValueFunc"}
       /\ \A k \in DOMAIN gm'.value :
              gm'.value[k].t \in {"int64", "float64", "IntValueFunc", "FloatValueFunc"}]_vars

\* a value that is no function of either kind has been refused by the store,
\* which keeps the function registered before, and the gauge holds a function
C28_Witness ==
    /\ ret.op = "SetDependentVar" /\ ret.panic
    /\ ret.fn.t = "func(DataMap) string"
    /\ Has(dm.dependentVars, ret.key)
    /\ \E k \in DOMAIN gm.value : gm.value[k].t = "FloatValueFunc"

\* C29: registering a period with duration zero is fatal on the store and on
\* the counter: the call terminates abnormally and the registered labels,
\* their durations and their next boundaries are left as they were.
C29_ZeroDurationIsFatal ==
    [][/\ (ret'.op = "SetPeriod" /\ ret'.du = 0)
            => ret'.panic /\ pc'.periods = pc.periods /\ pc'.nextTs = pc.nextTs
       /\ (ret'.op = "SetPeriods" /\ \E p \in DOMAIN ret'.ps : ret'.ps[p] = 0)
            => ret'.panic /\ pc'.periods = pc.periods /\ pc'.nextTs = pc.nextTs
       /\ (ret'.op = "DataMap.SetPeriods" /\ \E p \in DOMAIN ret'.ps : ret'.ps[p] = 0)
            => ret'.panic /\ dm'.periods = dm.periods /\ dm'.nextTs = dm.nextTs]_vars

\* The independent keys that have a registered type and a value, and the
\* dependent variables that are due at tm
MeterIndependent(g) == {k \in DOMAIN g.keyTypes : Has(g.values, k)}
MeterDue(g, tm) == {k \in DOMAIN g.dependentVars : DMDependentDue(g.dependentVars[k], tm)}

\* C30: each accepted Snapshot of the store yields exactly one descriptor for
\* every independent key with a registered type and a value and one for every
\* due dependent variable; the descriptor for key k is the registry instrument
\* named prefix-k, the same object across snapshots, and after the Snapshot it
\* holds the key's value or the function's result.
C30_OneInstrumentPerKey ==
    [][(ret'.op = "Snapshot" /\ ret'.accepted)
        => LET ind == MeterIndependent(dm)
               due == MeterDue(dm, now)
           IN  /\ ~ret'.panic
               /\ DOMAIN ret'.meters = ind \cup due
               /\ ret'.n = Cardinality(ind) + Cardinality(due)
               /\ \A k \in ind \cup due :
                    LET m == ret'.meters[k] IN
                    /\ ~m.isNil
                    /\ m.name = dm.prefix \o "-" \o k
                    /\ Has(registry', m.name)
                    /\ Has(registry, m.name)
                         => registry'[m.name].born = registry[m.name].born
                    /\ registry'[m.name].value =
                         IF k \in ind THEN dm.values[k]
                         ELSE DMCall(dm.dependentVars[k].Func, dm).val]_vars

\* The labels for which the step just taken reported a delta
PCLogRolled == {p \in DOMAIN pcLog : pcLog'[p].rolls # pcLog[p].rolls}

\* C31: a missed window's delta is lost, not queued: when a boundary of a label
\* has passed and the next one too before a report is made, the increments
\* made in the window that ended at the missed boundary are in no delta
\* reported later.
C31_MissedWindowIsLost ==
    [][\A p \in PCLogRolled :
          Unix(now) >= pc.nextTs[p] + pcLog[p].secs
            => PCLogWindow(pcLog[p], Sec(pc.nextTs[p])) - 1 \notin pcLog[p].wins]_vars

\* C36: with no Clear and no removal, the deltas reported for a label add up
\* to the running total at the label's most recent roll.
C36_DeltasSumToTotal ==
    \A p \in DOMAIN pcLog : pcLog[p].sum = pcLog[p].total

\* a label has rolled three times, through both kinds of call, and increments
\* made since its last roll are not yet reported
C36_Witness ==
    /\ ret.op = "Snapshot" /\ ret.snap.writable
    /\ pcLog["1m"].rolls >= 3 /\ pcLog["1m"].sum = 150
    /\ pcLog["90s"].rolls >= 1 /\ pcLog["90s"].sum = 30
    /\ pc.count = 150

C33_FunctionsBeforeRoll ==
    [][(ret'.op = "Snapshot" /\ ret'.accepted /\ ~ret'.panic)
        => \A k \in ret'.invoked :
             LET fn == dm.dependentVars[k].Func IN
             /\ ret'.meters[k].val = DMCall(fn, dm).val
             /\ ~Has(dm.valuesHistory, fn.p)
                  => ret'.meters[k].val = IntV(DMValueInt64Of(dm, fn.k).v)]_vars

\* the Snapshot just made rolled the bucket of s2 to the current values and
\* its function still reported the difference to the bucket before
C33_Witness ==
    /\ ret.op = "Snapshot" /\ ret.accepted /\ ~ret.panic
    /\ "a-s2" \in ret.invoked
    /\ Has(dm.valuesHistory, "s2") /\ Has(dm.valuesHistory["s2"], "a")
    /\ dm.valuesHistory["s2"]["a"] = dm.values["a"]
    /\ ret.meters["a-s2"].val = IntV(1)
    /\ dm.values["a"] = IntV(2)

\* C34: a Snapshot of the store that the interval gate rejects is a no-op:
\* values, buckets, boundaries, the stamps of the dependent variables and
\* latestSnapshot are unchanged, no function is invoked and no registry
\* instrument is created or updated.
C34_RejectedSnapshotNoOp ==
    [][(ret'.op = "Snapshot" /\ ~ret'.accepted)
        => /\ dm' = dm
           /\ registry' = registry
           /\ ret'.invoked = {} /\ ret'.isNil /\ ~ret'.panic]_vars

\* a Snapshot has just been rejected although a boundary has been reached, a
\* dependent variable is due and the value differs from the instrument's
C34_Witness ==
    /\ ret.op = "Snapshot" /\ ~ret.accepted
    /\ \E p \in DOMAIN dm.nextTs : Unix(now) >= dm.nextTs[p]
    /\ \E k \in DOMAIN dm.dependentVars : DMDependentDue(dm.dependentVars[k], now)
    /\ Has(registry, "dm-a") /\ Has(dm.values, "a")
    /\ registry["dm-a"].value # dm.values["a"]

\* C35: a Snapshot of a live KeyedGauge always returns and releases the store's
\* lock, also when a function entry reads through the methods of the GaugeMap
\* it is handed: the goroutine holding the write lock inside Snapshot is never
\* waiting for a lock of the same mutex, which nobody but itself could release.
C35_SnapshotReleasesLock ==
    \A t \in GMCGoroutines :
        gmc.w = t => ~(gmc.at[t].at = "RLock" /\ gmc.at[t].outer.op = "Snapshot")

\* C37: every element of a non-nil list returned by the store's Snapshot is a
\* non-nil instrument, whatever type was registered for its key.
C37_NoNilElement ==
    (ret.op = "Snapshot" /\ ~ret.panic /\ ~ret.isNil)
        => \A k \in DOMAIN ret.meters : ~ret.meters[k].isNil

\* The smallest duration among the registered windows
SmallestPeriod(ps) ==
    CHOOSE d \in {ps[p] : p \in DOMAIN ps} : \A p \in DOMAIN ps : d <= ps[p]

\* C38: in every state of the counter the interval of its Snapshot/Writable
\* gate, minPeriod, is the smallest duration among the registered windows, and
\* is 0 only when no window is registered.
C38_MinPeriodIsSmallest ==
    pc.minPeriod = IF DOMAIN pc.periods = {} THEN 0 ELSE SmallestPeriod(pc.periods)

\* The names a returned slice holds
NamesOf(names) == {names[j] : j \in 1..Len(names)}

\* C39: when more than one name is registered, Periods(), Keys() and
\* DependentKeys() return every period label, every key with a value and every
\* dependent key exactly once, with no empty string and no omission.
C39_EnumerationComplete ==
    (ret.op \in DMEnumOps /\ Cardinality(DOMAIN DMEnumerated(dm, ret.op)) > 1)
        => /\ NamesOf(ret.names) = DOMAIN DMEnumerated(dm, ret.op)
           /\ Len(ret.names) = Cardinality(DOMAIN DMEnumerated(dm, ret.op))

\* A boundary has been missed: the clock is a whole window or more past the
\* window's next boundary.  Caught up: every next boundary is ahead of the clock.
CatchStalled ==
    \E p \in DOMAIN pc.nextTs : Unix(now) >= pc.nextTs[p] + DurSeconds(pc.periods[p])
CatchCaughtUp == \A p \in DOMAIN pc.nextTs : pc.nextTs[p] > Unix(now)
CatchIntervalShorter == \A p \in DOMAIN pc.periods : pc.periods[p] > CatchMaxStep

====
